---- MODULE Spec2Model ----
(***************************************************************************)
(* Ledger core: journal poster (src/services/journalService.ts), domain    *)
(* validators (src/domain/types.ts, src/domain/stateMachine.ts), outbox    *)
(* dispatcher (src/services/outboxService.ts) and the ack sink             *)
(* (api/events.ts), over a document store with snapshot-isolated           *)
(* multi-document transactions and unique indexes.                         *)
(*                                                                         *)
(* Units.  Amount strings are sequences of one-character strings.  Bucket  *)
(* values are the JavaScript numbers the code stores, written here times   *)
(* 100 (in hundredths), so that Number("1.05") is the integer 105.  Time   *)
(* is in milliseconds.                                                     *)
(***************************************************************************)
EXTENDS Integers, Sequences, FiniteSets, TLC

VARIABLES
    now,        \* wall clock (ms), read by every `new Date()` / Date.now()
    seed,       \* accounts as seeded before the first request (never changes)
    accounts,   \* committed collection `accounts`:  _id -> document
    journals,   \* committed collection `journals`, in insertion order
    ledger,     \* committed collection `ledger_entries`, in insertion order
    outbox,     \* committed collection `outbox`, in insertion order
    acks,       \* committed collection `events_acks`, in insertion order
    tx,         \* per postJournal caller: position, session snapshot, writes
    res,        \* per postJournal caller: outcome of its last finished call
    calls,      \* number of postJournal calls started so far
    nextOid,    \* next ObjectId the driver generates for an outbox insert
    wk,         \* per processOutbox caller: position and local variables
    chaosOn,    \* CHAOS_PROB is set to a probability > 0
    failsLeft   \* how many more dispatches the consumer side may fail

vars == <<now, seed, accounts, journals, ledger, outbox, acks, tx, res, calls,
          nextOid, wk, chaosOn, failsLeft>>

storeVars == <<accounts, journals, ledger, outbox>>

(***************************************************************************)
(* Bounds of the model.                                                    *)
(***************************************************************************)
MaxCalls == 3      \* postJournal calls per behaviour
MaxFails == 2      \* failed dispatches per behaviour
MaxLiveFails == 1  \* failed dispatches per behaviour under fair invocation

(***************************************************************************)
(* Amount strings (src/domain/types.ts).                                   *)
(***************************************************************************)
Digits == {"0", "1", "2", "3", "4", "5", "6", "7", "8", "9"}

DigitVal(c) ==
    CASE c = "0" -> 0 [] c = "1" -> 1 [] c = "2" -> 2 [] c = "3" -> 3
      [] c = "4" -> 4 [] c = "5" -> 5 [] c = "6" -> 6 [] c = "7" -> 7
      [] c = "8" -> 8 [] c = "9" -> 9

AllDigits(s) == \A i \in 1..Len(s) : s[i] \in Digits

\* position of the first "." of s, 0 when there is none
DotPos(s) ==
    IF \E i \in 1..Len(s) : s[i] = "."
    THEN CHOOSE i \in 1..Len(s) : s[i] = "." /\ \A j \in 1..(i-1) : s[j] # "."
    ELSE 0

\* const [int, frac = ""] = raw.split(".")   (at most one "." once the regex matched)
IntPart(s)  == IF DotPos(s) = 0 THEN s ELSE SubSeq(s, 1, DotPos(s) - 1)
FracPart(s) == IF DotPos(s) = 0 THEN <<>> ELSE SubSeq(s, DotPos(s) + 1, Len(s))

\* /^\d+(?:\.\d{1,maxFrac})?$/
MatchesDecimal(s, maxFrac) ==
    /\ Len(IntPart(s)) >= 1
    /\ AllDigits(IntPart(s))
    /\ DotPos(s) # 0 => /\ Len(FracPart(s)) >= 1
                        /\ Len(FracPart(s)) <= maxFrac
                        /\ AllDigits(FracPart(s))

RECURSIVE ToNat(_)
ToNat(s) == IF s = <<>> THEN 0
            ELSE ToNat(SubSeq(s, 1, Len(s) - 1)) * 10 + DigitVal(s[Len(s)])

\* String(BigInt(int)): drops leading zeros
RECURSIVE StripZeros(_)
StripZeros(s) == IF Len(s) > 1 /\ s[1] = "0" THEN StripZeros(Tail(s)) ELSE s

PadEnd2(f) == IF Len(f) = 0 THEN <<"0", "0">>
              ELSE IF Len(f) = 1 THEN f \o <<"0">> ELSE f

normalizeAmountString(raw) ==
    IF ~MatchesDecimal(raw, Len(raw)) THEN raw
    ELSE LET i == StripZeros(IntPart(raw))
             frac == FracPart(raw)
             f == SubSeq(frac, 1, IF Len(frac) < 2 THEN Len(frac) ELSE 2)
         IN  IF frac = <<>> THEN i
             ELSE IF f = <<"0">> \/ f = <<"0", "0">> THEN i
             ELSE i \o <<".">> \o PadEnd2(f)

\* cents(str): integer cents of an amount string, -1 standing for the thrown
\* "Invalid amount string"
cents(str) ==
    LET normalized == normalizeAmountString(str)
    IN  IF ~MatchesDecimal(normalized, 2) THEN -1
        ELSE ToNat(IntPart(normalized)) * 100
               + ToNat(SubSeq(PadEnd2(FracPart(normalized)), 1, 2))

\* Number(amount.amount), in hundredths (see Units)
NumberOf(str) ==
    ToNat(IntPart(str)) * 100 + ToNat(PadEnd2(FracPart(str)))

isCurrencyCode(code) == code \in {"USD", "EUR"}

(***************************************************************************)
(* Bucket state machine (src/domain/stateMachine.ts).                      *)
(***************************************************************************)
Buckets == {"available", "pending", "escrow", "outflow"}
None == "none"      \* an absent optional field (undefined / null)

\* a table whose lock starts from pending only, as in STATE_GRAPH
RULES_LockFromPending ==
    [reserve  |-> [from |-> {"available"}, to |-> {"pending"}],
     lock     |-> [from |-> {"pending"},   to |-> {"escrow"}],
     finalize |-> [from |-> {"escrow"},    to |-> {"outflow"}],
     release  |-> [from |-> {"pending"},   to |-> {"available"}],
     revert   |-> [from |-> {"escrow"},    to |-> {"available"}]]

\* RULES, each side as the set of buckets it admits
RULES ==
    [reserve  |-> [from |-> {"available"},            to |-> {"pending"}],
     lock     |-> [from |-> {"pending", "available"}, to |-> {"escrow"}],
     finalize |-> [from |-> {"escrow"},               to |-> {"outflow"}],
     release  |-> [from |-> {"pending"},              to |-> {"available"}],
     revert   |-> [from |-> {"escrow"},               to |-> {"available"}]]

Transitions == DOMAIN RULES

bucketMatches(val, expected) == val \in expected

\* validateTransition(line): "ok" or the head of the message of the error it
\* throws, which names the field
validateTransition(line) ==
    IF line.fromBucket = line.toBucket THEN "ok"
    ELSE IF line.fromBucket = None THEN "Missing fromBucket"
    ELSE IF line.toBucket = None THEN "Missing toBucket"
    ELSE IF ~bucketMatches(line.fromBucket, RULES[line.transition].from)
         THEN "Invalid fromBucket"
    ELSE IF ~bucketMatches(line.toBucket, RULES[line.transition].to)
         THEN "Invalid toBucket"
    ELSE "ok"

validateAllTransitions(lines) ==
    IF \E i \in 1..Len(lines) : validateTransition(lines[i]) # "ok"
    THEN LET i == CHOOSE k \in 1..Len(lines) :
                     /\ validateTransition(lines[k]) # "ok"
                     /\ \A j \in 1..(k-1) : validateTransition(lines[j]) = "ok"
         IN  validateTransition(lines[i])
    ELSE "ok"

assertSingleCurrency(lines) ==
    IF \E i \in 1..Len(lines) : lines[i].currency # lines[1].currency
    THEN "CurrencyMismatch" ELSE "ok"

\* sum over the lines of +cents for a debit, -cents for a credit
RECURSIVE SignedSum(_)
SignedSum(lines) ==
    IF lines = <<>> THEN 0
    ELSE LET l == lines[Len(lines)]
             v == cents(l.amount)
         IN  SignedSum(SubSeq(lines, 1, Len(lines) - 1))
               + (IF l.side = "debit" THEN v ELSE -v)

\* balance judged on the number of debit and credit lines, not on the amounts
assertBalanced_ByCount(lines) ==
    IF Cardinality({i \in 1..Len(lines) : lines[i].side = "debit"})
         # Cardinality({i \in 1..Len(lines) : lines[i].side = "credit"})
    THEN "Unbalanced" ELSE "ok"

assertBalanced(lines) ==
    IF \E i \in 1..Len(lines) : cents(lines[i].amount) < 0 THEN "InvalidAmount"
    ELSE IF SignedSum(lines) # 0 THEN "Unbalanced" ELSE "ok"

\* JournalSchema.parse: shape validation
SchemaOk(body) ==
    /\ body.journalId # ""
    /\ body.idempotencyKey # ""
    /\ Len(body.lines) >= 2
    /\ \A i \in 1..Len(body.lines) :
          LET l == body.lines[i]
          IN  /\ l.accountId # ""
              /\ l.fromBucket \in Buckets \cup {None}
              /\ l.toBucket \in Buckets \cup {None}
              /\ l.side \in {"debit", "credit"}
              /\ l.transition \in Transitions
              /\ isCurrencyCode(l.currency)
              /\ MatchesDecimal(l.amount, 2)

\* a preflight that stops after the transition rules
preflightValidate_TransitionsOnly(body) ==
    IF Len(body.lines) = 0 THEN "ValidationError"
    ELSE validateAllTransitions(body.lines)

\* preflightValidate(parsed): "ok" or the first error raised
preflightValidate(body) ==
    IF Len(body.lines) = 0 THEN "ValidationError"
    ELSE IF validateAllTransitions(body.lines) # "ok"
         THEN validateAllTransitions(body.lines)
    ELSE IF assertSingleCurrency(body.lines) # "ok"
         THEN assertSingleCurrency(body.lines)
    ELSE assertBalanced(body.lines)

(***************************************************************************)
(* Requests the callers send.                                              *)
(***************************************************************************)
Posters == {"p1", "p2"}
Workers == {"w1", "w2"}

Line(acc, tr, from, to, side, amt, cur) ==
    [accountId |-> acc, transition |-> tr, fromBucket |-> from, toBucket |-> to,
     side |-> side, amount |-> amt, currency |-> cur]

Body(jid, key, lines) == [journalId |-> jid, idempotencyKey |-> key, lines |-> lines]

NoBody == Body("", "", <<>>)

\* reserve on A against lock on the pool, 2 units
BodyJ1 == Body("J1", "k1",
    <<Line("A", "reserve", "available", "pending", "debit", <<"2">>, "USD"),
      Line("ESCROW_POOL", "lock", "available", "escrow", "credit", <<"2">>, "USD")>>)
\* the pool line first, then 3 units out of A
BodyJ2 == Body("J2", "k2",
    <<Line("ESCROW_POOL", "lock", "available", "escrow", "credit", <<"3">>, "USD"),
      Line("A", "reserve", "available", "pending", "debit", <<"3">>, "USD")>>)
\* the idempotency key of J1 under another journalId and other lines
BodyJ3 == Body("J3", "k1",
    <<Line("A", "lock", "pending", "escrow", "debit", <<"1">>, "USD"),
      Line("ESCROW_POOL", "lock", "escrow", "escrow", "credit", <<"1">>, "USD")>>)
\* the journalId of J1 under another idempotency key
BodyJ4 == Body("J1", "k4",
    <<Line("A", "reserve", "available", "pending", "debit", <<"1">>, "USD"),
      Line("ESCROW_POOL", "lock", "available", "escrow", "credit", <<"1">>, "USD")>>)
\* unbalanced: 2 debit against 1 credit
BodyJ5 == Body("J5", "k5",
    <<Line("A", "reserve", "available", "pending", "debit", <<"2">>, "USD"),
      Line("ESCROW_POOL", "lock", "available", "escrow", "credit", <<"1">>, "USD")>>)
\* touches the unseeded account N, then overdraws A
BodyJ6 == Body("J6", "k6",
    <<Line("N", "reserve", "available", "available", "debit", <<"9">>, "USD"),
      Line("A", "reserve", "available", "pending", "credit", <<"9">>, "USD")>>)
\* touches the unseeded account N and succeeds
BodyJ7 == Body("J7", "k7",
    <<Line("N", "reserve", "available", "available", "debit", <<"1">>, "USD"),
      Line("ESCROW_POOL", "lock", "available", "escrow", "credit", <<"1">>, "USD")>>)
\* a EUR journal on the USD account A
BodyJ8 == Body("J8", "k8",
    <<Line("ESCROW_POOL", "lock", "escrow", "escrow", "credit", <<"1">>, "EUR"),
      Line("A", "reserve", "available", "pending", "debit", <<"1">>, "EUR")>>)

Bodies == {BodyJ1, BodyJ2, BodyJ3, BodyJ4, BodyJ5, BodyJ6, BodyJ7, BodyJ8}

\* every transition with every choice of buckets, present or absent, on a
\* line of account A that a valid line of the pool balances
TableBodies ==
    {Body("T", "kT",
        <<Line("A", tr, from, to, "debit", <<"1">>, "USD"),
          Line("ESCROW_POOL", "lock", "available", "escrow", "credit", <<"1">>, "USD")>>) :
        tr \in Transitions, from \in Buckets \cup {None}, to \in Buckets \cup {None}}

\* requests the schema rejects: one line only, an empty journalId, an empty
\* accountId, a transition and a side outside the enums, a lower-case
\* currency, an amount with three fraction digits
BodyOneLine == Body("S1", "s1", <<BodyJ1.lines[1]>>)
BodyNoId == Body("", "s2", BodyJ1.lines)
BodyNoAccount == Body("S3", "s3",
    <<[BodyJ1.lines[1] EXCEPT !.accountId = ""], BodyJ1.lines[2]>>)
BodyBadEnum == Body("S4", "s4",
    <<[BodyJ1.lines[1] EXCEPT !.transition = "transfer"], BodyJ1.lines[2]>>)
BodyBadSide == Body("S5", "s5",
    <<BodyJ1.lines[1], [BodyJ1.lines[2] EXCEPT !.side = "both"]>>)
BodyBadCurrency == Body("S6", "s6",
    <<[BodyJ1.lines[1] EXCEPT !.currency = "usd"],
      [BodyJ1.lines[2] EXCEPT !.currency = "usd"]>>)
BodyBadAmount == Body("S7", "s7",
    <<[BodyJ1.lines[1] EXCEPT !.amount = <<"2", ".", "0", "0", "0">>],
      BodyJ1.lines[2]>>)
\* a request of two currencies
BodyMixed == Body("S8", "s8",
    <<BodyJ1.lines[1], [BodyJ1.lines[2] EXCEPT !.currency = "EUR"]>>)

SchemaRejected == {BodyOneLine, BodyNoId, BodyNoAccount, BodyBadEnum, BodyBadSide,
                   BodyBadCurrency, BodyBadAmount}

PreflightBodies == TableBodies \cup SchemaRejected \cup {BodyMixed, BodyJ5, BodyJ1}

ZeroBuckets == [b \in Buckets |-> 0]

Account(cur, avail) ==
    [currency |-> cur, buckets |-> [ZeroBuckets EXCEPT !["available"] = avail]]

\* tests/journal.spec.ts seeds accounts with insertMany before posting
SeedAccounts ==
    [a \in {"A", "ESCROW_POOL"} |->
        IF a = "A" THEN Account("USD", 400) ELSE Account("USD", 0)]

EmptyFn == [x \in {} |-> 0]

(***************************************************************************)
(* The journal poster (src/services/journalService.ts).                    *)
(***************************************************************************)
IdleTx ==
    [pc |-> "idle", body |-> NoBody, snapJ |-> <<>>, view |-> EmptyFn,
     dirty |-> {}, hdr |-> <<>>, led |-> <<>>, obx |-> <<>>, lineNo |-> 0,
     already |-> None, staleAcc |-> {}, staleKey |-> {}, staleJid |-> {},
     replay |-> FALSE,     \* history: the identical body was committed before the call
     afterChaos |-> FALSE, \* history: the caller's previous call, with the same
                           \* body, failed through the chaos hook
     retried |-> FALSE]    \* history: withTransaction ran the callback again

NoRes == [outcome |-> "none", journalId |-> None]

\* positions at which a session holds a snapshot and possibly writes
InTxn == {"header", "line", "finish", "commit"}

\* the session's view of `journals`: its snapshot plus its own insert
JournalsView(t) == t.snapJ \o t.hdr

\* the probe looking the idempotency key up in the wrong field: no match, ever
findExistingJournal_NoMatch(js, input) ==
    LET m == {i \in 1..Len(js) : js[i].idempotencyKey = input.journalId}
    IN  IF m = {} THEN None
        ELSE js[CHOOSE i \in m : \A j \in m : i <= j].journalId

\* a probe on the idempotencyKey alone
findExistingJournal_KeyOnly(js, input) ==
    LET m == {i \in 1..Len(js) : js[i].idempotencyKey = input.idempotencyKey}
    IN  IF m = {} THEN None
        ELSE js[CHOOSE i \in m : \A j \in m : i <= j].journalId

\* findExistingJournal: journalId of the first document matching
\* { $or: [{idempotencyKey}, {journalId}] }, None when there is none
findExistingJournal(js, input) ==
    LET m == {i \in 1..Len(js) :
                \/ js[i].idempotencyKey = input.idempotencyKey
                \/ js[i].journalId = input.journalId}
    IN  IF m = {} THEN None
        ELSE js[CHOOSE i \in m : \A j \in m : i <= j].journalId

\* createJournalHeader: the inserted document
createJournalHeader(input, t) ==
    [journalId |-> input.journalId, idempotencyKey |-> input.idempotencyKey,
     lines |-> input.lines, status |-> "pending", createdAt |-> t]

\* the update filtering on a field the header does not carry: no match
markJournalPosted_NoMatch(js, journalId) == js

\* markJournalPosted: updateOne({journalId}, {$set: {status: "posted"}})
markJournalPosted(js, journalId) ==
    IF \E i \in 1..Len(js) : js[i].journalId = journalId
    THEN LET i == CHOOSE k \in 1..Len(js) :
                     /\ js[k].journalId = journalId
                     /\ \A j \in 1..(k-1) : js[j].journalId # journalId
         IN  [js EXCEPT ![i].status = "posted"]
    ELSE js

\* appendLedgerEntry: the inserted document
appendLedgerEntry(journalId, lineNo, line, t) ==
    [journalId |-> journalId, lineNo |-> lineNo, accountId |-> line.accountId,
     fromBucket |-> line.fromBucket, toBucket |-> line.toBucket,
     side |-> line.side, transition |-> line.transition,
     amount |-> line.amount, currency |-> line.currency, createdAt |-> t]

\* the insert issued without { session }: it is outside the transaction
enqueueOutboxPosted_NoSession(sessionOutbox, storeOutbox, oid, journalId, t) ==
    [session |-> sessionOutbox,
     store |-> Append(storeOutbox,
                      [id |-> oid, journalId |-> journalId, status |-> "pending",
                       attempts |-> 0, nextAttemptAt |-> t, createdAt |-> t])]

\* enqueueOutboxPosted: insertOne(item, { session }).  The insert goes to the
\* session's writes (sessionOutbox); the committed collection (storeOutbox) is
\* not touched before the commit.
enqueueOutboxPosted(sessionOutbox, storeOutbox, oid, journalId, t) ==
    [session |-> Append(sessionOutbox,
                        [id |-> oid, journalId |-> journalId, status |-> "pending",
                         attempts |-> 0, nextAttemptAt |-> t, createdAt |-> t]),
     store |-> storeOutbox]

\* an exempt set that also names a customer account
SYSTEM_OVERDRAFT_ACCOUNTS_Wide == {"ESCROW_POOL", "A"}

\* the same set is written out in applyLineAtomic and in assertNoNegativeBuckets
SYSTEM_OVERDRAFT_ACCOUNTS == {"ESCROW_POOL"}

\* an update without the funds comparison in its predicate
shouldGuard_Off(line) == FALSE

\* applyLineAtomic: const shouldGuard = !!fromBucket && !SYSTEM_OVERDRAFT_ACCOUNTS.has(accountId)
shouldGuard(line) ==
    line.fromBucket # None /\ line.accountId \notin SYSTEM_OVERDRAFT_ACCOUNTS

\* a predicate without the currency
predicateMatches_NoCurrency(doc, line) ==
    shouldGuard(line) => doc.buckets[line.fromBucket] >= NumberOf(line.amount)

\* applyLineAtomic: the predicate of the guarded updateOne, on the document
predicateMatches(doc, line) ==
    /\ doc.currency = line.currency
    /\ shouldGuard(line) => doc.buckets[line.fromBucket] >= NumberOf(line.amount)

\* an update that moves nothing: the next line sees the balance as it was
applyInc_Unchanged(buckets, line) == buckets

\* an update that adds to the toBucket and takes nothing from the fromBucket
applyInc_CreditOnly(buckets, line) ==
    IF line.toBucket # None
    THEN [buckets EXCEPT ![line.toBucket] = @ + NumberOf(line.amount)]
    ELSE buckets

\* applyLineAtomic: the $inc of the guarded updateOne, applied to the buckets
applyInc(buckets, line) ==
    LET amt == NumberOf(line.amount)
        b1 == IF line.fromBucket # None
              THEN [buckets EXCEPT ![line.fromBucket] = @ - amt] ELSE buckets
    IN  IF line.toBucket # None
        THEN [b1 EXCEPT ![line.toBucket] = @ + amt] ELSE b1

\* no line is short-circuited
isNoop_Never(line) == FALSE

\* applyLineAtomic: if (fromBucket && toBucket && fromBucket === toBucket)
isNoop(line) ==
    line.fromBucket # None /\ line.toBucket # None /\ line.fromBucket = line.toBucket

\* an account created with the line's amount available
newAccount_Funded(line) ==
    [currency |-> line.currency,
     buckets |-> [ZeroBuckets EXCEPT !["available"] = NumberOf(line.amount)]]

\* the $setOnInsert document of the upsert
newAccount(line) == [currency |-> line.currency, buckets |-> ZeroBuckets]

\* a sweep that finds nothing
assertNoNegativeBuckets_Off(view, accountIds) == "ok"

\* assertNoNegativeBuckets(accountIds) on the session's view
assertNoNegativeBuckets(view, accountIds) ==
    IF \E a \in accountIds \cap DOMAIN view :
          /\ a \notin SYSTEM_OVERDRAFT_ACCOUNTS
          /\ \E k \in Buckets : view[a].buckets[k] < 0
    THEN "NegativeBalance" ELSE "ok"

\* accounts the lines 1..n of a body touch (affectedAccounts)
affectedAccounts(lines, n) == {lines[i].accountId : i \in 1..n}

(***************************************************************************)
(* The store: snapshot isolation.  A session reads its snapshot plus its   *)
(* own writes.  A write to a document (or an insert of a unique key) that  *)
(* another open session has written, or that was committed after the       *)
(* snapshot was taken, raises a transient write conflict, on which         *)
(* session.withTransaction executes the callback again.  An insert whose       *)
(* unique key is visible in the snapshot raises the duplicate-key error    *)
(* (code 11000), which is not transient.                                   *)
(***************************************************************************)
\* no write ever conflicts
AccountConflict_Never(p, a) == FALSE

AccountConflict(p, a) ==
    \/ a \in tx[p].staleAcc
    \/ \E q \in Posters \ {p} : tx[q].pc \in InTxn /\ a \in tx[q].dirty

HeaderConflict(p, h) ==
    \/ h.idempotencyKey \in tx[p].staleKey
    \/ h.journalId \in tx[p].staleJid
    \/ \E q \in Posters \ {p} :
          /\ tx[q].pc \in InTxn
          /\ \E i \in 1..Len(tx[q].hdr) :
                \/ tx[q].hdr[i].idempotencyKey = h.idempotencyKey
                \/ tx[q].hdr[i].journalId = h.journalId

HeaderDuplicate(js, h) ==
    \E i \in 1..Len(js) :
        \/ js[i].idempotencyKey = h.idempotencyKey
        \/ js[i].journalId = h.journalId

\* a journal with this journalId, idempotencyKey and lines is committed
Committed(body) ==
    \E i \in 1..Len(journals) :
        /\ journals[i].journalId = body.journalId
        /\ journals[i].idempotencyKey = body.idempotencyKey
        /\ journals[i].lines = body.lines

\* the probe hoisted out of the callback: a retry resumes at the header insert
Retry_SkipProbe(t) ==
    [IdleTx EXCEPT !.pc = "header", !.body = t.body, !.replay = t.replay,
                   !.afterChaos = t.afterChaos,
                   !.retried = TRUE, !.snapJ = journals, !.view = accounts]

\* the callback is run again on a fresh session state
Retry(t) ==
    [IdleTx EXCEPT !.pc = "begin", !.body = t.body, !.replay = t.replay,
                   !.afterChaos = t.afterChaos, !.retried = TRUE]

\* the call ends: the session is closed, its uncommitted writes are gone
Ended(t) ==
    [IdleTx EXCEPT !.pc = "done", !.body = t.body, !.replay = t.replay,
                   !.afterChaos = t.afterChaos, !.retried = t.retried]

(***************************************************************************)
(* postJournal, step by step.                                              *)
(***************************************************************************)
\* JournalSchema.parse and preflightValidate; a failure is thrown before any
\* session exists
StartPost(p, body) ==
    /\ tx[p].pc \in {"idle", "done"}
    /\ calls < MaxCalls
    /\ calls' = calls + 1
    /\ LET pre == IF ~SchemaOk(body) THEN "ValidationError"
                  ELSE preflightValidate(body)
           t == [IdleTx EXCEPT !.body = body, !.replay = Committed(body),
                               !.afterChaos = /\ tx[p].pc = "done"
                                              /\ tx[p].body = body
                                              /\ res[p].outcome = "ChaosFailure"]
       IN  IF pre # "ok"
           THEN /\ tx' = [tx EXCEPT ![p] = Ended(t)]
                /\ res' = [res EXCEPT ![p] = [outcome |-> pre, journalId |-> None]]
           ELSE /\ tx' = [tx EXCEPT ![p] = [t EXCEPT !.pc = "begin"]]
                /\ res' = [res EXCEPT ![p] = NoRes]
    /\ UNCHANGED <<now, seed, accounts, journals, ledger, outbox, acks, nextOid,
                   wk, chaosOn, failsLeft>>

\* the first operation of the callback opens the snapshot: findExistingJournal
Probe(p) ==
    /\ tx[p].pc = "begin"
    /\ LET existing == findExistingJournal(journals, tx[p].body)
           t == [tx[p] EXCEPT !.snapJ = journals, !.view = accounts]
       IN  tx' = [tx EXCEPT ![p] =
                    IF existing # None
                    THEN [t EXCEPT !.already = existing, !.pc = "commit"]
                    ELSE [t EXCEPT !.pc = "header"]]
    /\ UNCHANGED <<now, seed, accounts, journals, ledger, outbox, acks, res,
                   calls, nextOid, wk, chaosOn, failsLeft>>

\* an insertOne without its { session } option: the document is in the
\* collection at once, whatever becomes of the transaction
insertOne_NoSession(sessionDocs, storeDocs, doc) ==
    [session |-> sessionDocs, store |-> Append(storeDocs, doc)]

\* insertOne(doc, { session }): the document is written in the session and
\* the committed collection stays as it is until the transaction commits
insertOne(sessionDocs, storeDocs, doc) ==
    [session |-> Append(sessionDocs, doc), store |-> storeDocs]

\* createJournalHeader
CreateHeader(p) ==
    /\ tx[p].pc = "header"
    /\ LET h == createJournalHeader(tx[p].body, now)
           ins == insertOne(tx[p].hdr, journals, h)
       IN  IF HeaderDuplicate(JournalsView(tx[p]), h)
           THEN /\ tx' = [tx EXCEPT ![p] = Ended(tx[p])]
                /\ res' = [res EXCEPT ![p] =
                              [outcome |-> "DuplicateKey", journalId |-> None]]
                /\ UNCHANGED journals
           ELSE IF HeaderConflict(p, h)
           THEN /\ tx' = [tx EXCEPT ![p] = Retry(tx[p])]
                /\ UNCHANGED <<res, journals>>
           ELSE /\ tx' = [tx EXCEPT ![p].hdr = ins.session, ![p].pc = "line"]
                /\ journals' = ins.store
                /\ UNCHANGED res
    /\ UNCHANGED <<now, seed, accounts, ledger, outbox, acks, calls,
                   nextOid, wk, chaosOn, failsLeft>>

\* one round of the loop over parsed.lines: applyLineAtomic, appendLedgerEntry
ApplyLine(p) ==
    /\ tx[p].pc = "line"
    /\ LET t == tx[p]
           n == t.lineNo + 1
           line == t.body.lines[n]
           a == line.accountId
           exists == a \in DOMAIN t.view
           doc == IF exists THEN t.view[a] ELSE newAccount(line)
           writes == ~exists \/ isNoop(line) \/ predicateMatches(doc, line)
           doc2 == IF isNoop(line) THEN doc
                   ELSE [doc EXCEPT !.buckets = applyInc(doc.buckets, line)]
           entry == appendLedgerEntry(t.body.journalId, n, line, now)
       IN  IF writes /\ AccountConflict(p, a)
           THEN /\ tx' = [tx EXCEPT ![p] = Retry(t)]
                /\ UNCHANGED res
           ELSE IF ~isNoop(line) /\ ~predicateMatches(doc, line)
           THEN /\ tx' = [tx EXCEPT ![p] = Ended(t)]
                /\ res' = [res EXCEPT ![p] =
                              [outcome |-> "InsufficientFunds", journalId |-> None]]
           ELSE /\ tx' = [tx EXCEPT ![p] =
                            [t EXCEPT !.view = [x \in DOMAIN t.view \cup {a} |->
                                                  IF x = a THEN doc2 ELSE t.view[x]],
                                      !.dirty = @ \cup {a},
                                      !.led = Append(@, entry),
                                      !.lineNo = n,
                                      !.pc = IF n = Len(t.body.lines)
                                             THEN "finish" ELSE "line"]]
                /\ UNCHANGED res
    /\ UNCHANGED <<now, seed, accounts, journals, ledger, outbox, acks, calls,
                   nextOid, wk, chaosOn, failsLeft>>

\* assertNoNegativeBuckets, enqueueOutboxPosted, markJournalPosted, chaosMaybe
Finish(p) ==
    /\ tx[p].pc = "finish"
    /\ \E chaos \in {FALSE, chaosOn} :
         LET t == tx[p]
             sweep == assertNoNegativeBuckets(
                          t.view, affectedAccounts(t.body.lines, t.lineNo))
             enq == enqueueOutboxPosted(t.obx, outbox, nextOid, t.body.journalId, now)
         IN  IF sweep # "ok"
             THEN /\ tx' = [tx EXCEPT ![p] = Ended(t)]
                  /\ res' = [res EXCEPT ![p] =
                                [outcome |-> sweep, journalId |-> None]]
                  /\ UNCHANGED <<nextOid, outbox>>
             ELSE IF chaos
             THEN /\ tx' = [tx EXCEPT ![p] = Ended(t)]
                  /\ res' = [res EXCEPT ![p] =
                                [outcome |-> "ChaosFailure", journalId |-> None]]
                  /\ nextOid' = nextOid + 1
                  /\ outbox' = enq.store
             ELSE /\ tx' = [tx EXCEPT ![p] =
                              [t EXCEPT !.obx = enq.session,
                                        !.hdr = markJournalPosted(@, t.body.journalId),
                                        !.pc = "commit"]]
                  /\ nextOid' = nextOid + 1
                  /\ outbox' = enq.store
                  /\ UNCHANGED res
    /\ UNCHANGED <<now, seed, accounts, journals, ledger, acks, calls,
                   wk, chaosOn, failsLeft>>

\* the transaction commits: its writes become visible together, and the
\* call returns { ok: true, journalId: already?.journalId ?? parsed.journalId }
Commit(p) ==
    /\ tx[p].pc = "commit"
    /\ LET t == tx[p]
       IN  /\ journals' = journals \o t.hdr
           /\ ledger' = ledger \o t.led
           /\ outbox' = outbox \o t.obx
           /\ accounts' = [a \in DOMAIN accounts \cup t.dirty |->
                             IF a \in t.dirty THEN t.view[a] ELSE accounts[a]]
           /\ tx' = [q \in Posters |->
                       IF q = p THEN Ended(t)
                       ELSE IF tx[q].pc \in InTxn
                       THEN [tx[q] EXCEPT
                               !.staleAcc = @ \cup t.dirty,
                               !.staleKey = @ \cup {t.hdr[i].idempotencyKey :
                                                       i \in 1..Len(t.hdr)},
                               !.staleJid = @ \cup {t.hdr[i].journalId :
                                                       i \in 1..Len(t.hdr)}]
                       ELSE tx[q]]
           /\ res' = [res EXCEPT ![p] =
                         [outcome |-> "ok",
                          journalId |-> IF t.already # None THEN t.already
                                        ELSE t.body.journalId]]
    /\ UNCHANGED <<now, seed, acks, calls, nextOid, wk, chaosOn, failsLeft>>

PostStep(p) ==
    \/ \E body \in Bodies : StartPost(p, body)
    \/ Probe(p)
    \/ CreateHeader(p)
    \/ ApplyLine(p)
    \/ Finish(p)
    \/ Commit(p)

(***************************************************************************)
(* The ack sink (api/events.ts) and the outbox dispatcher                  *)
(* (src/services/outboxService.ts).                                        *)
(***************************************************************************)
\* events_acks without the unique index
AckIndexUnique_Off == FALSE

\* ensureIndexes: events_acks has { journalId: 1 } unique (uniq_ack)
AckIndexUnique == TRUE

\* what a request got from the consumer: the status of the response and the
\* event the handler logged; NoAnswer when the request did not reach it
NoAnswer == [status |-> 0, evt |-> ""]

\* insertOne into events_acks: the rows afterwards and the error code raised
\* (0: none, 11000: duplicate key on uniq_ack)
insertAck(rows, journalId) ==
    IF AckIndexUnique /\ \E i \in 1..Len(rows) : rows[i].journalId = journalId
    THEN [rows |-> rows, code |-> 11000]
    ELSE [rows |-> Append(rows, [journalId |-> journalId]), code |-> 0]

\* a handler that treats the duplicate-key error like any other store error
eventsHandler_Rethrow(rows, journalId, storeError) ==
    IF journalId = ""
    THEN [rows |-> rows, ans |-> [status |-> 400, evt |-> ""]]
    ELSE IF storeError \/ insertAck(rows, journalId).code # 0
    THEN [rows |-> rows, ans |-> [status |-> 500, evt |-> "events.failed"]]
    ELSE [rows |-> insertAck(rows, journalId).rows,
          ans |-> [status |-> 200, evt |-> "event.ack"]]

\* a handler that answers 200 without recording the acknowledgement
eventsHandler_Unrecorded(rows, journalId, storeError) ==
    IF journalId = ""
    THEN [rows |-> rows, ans |-> [status |-> 400, evt |-> ""]]
    ELSE IF storeError
    THEN [rows |-> rows, ans |-> [status |-> 500, evt |-> "events.failed"]]
    ELSE [rows |-> rows, ans |-> [status |-> 200, evt |-> "event.ack"]]

\* handler of POST /events: 400 without a journalId; insertOne into
\* events_acks; a duplicate-key error (code 11000) is logged and swallowed and
\* the answer is 200 as after an insert; any other error of the store
\* (storeError) is rethrown to the outer catch, which answers 500
eventsHandler(rows, journalId, storeError) ==
    IF journalId = ""
    THEN [rows |-> rows, ans |-> [status |-> 400, evt |-> ""]]
    ELSE IF storeError
    THEN [rows |-> rows, ans |-> [status |-> 500, evt |-> "events.failed"]]
    ELSE IF insertAck(rows, journalId).code = 11000
    THEN [rows |-> insertAck(rows, journalId).rows,
          ans |-> [status |-> 200, evt |-> "event.duplicate_ack"]]
    ELSE [rows |-> insertAck(rows, journalId).rows,
          ans |-> [status |-> 200, evt |-> "event.ack"]]

NoDoc == [id |-> 0, journalId |-> "", status |-> "", attempts |-> 0,
          nextAttemptAt |-> 0, createdAt |-> 0]

IdleWk ==
    [pc |-> "idle", i |-> 0, maxBatch |-> 0, maxBackoffMs |-> 0, doc |-> NoDoc,
     attempted |-> 0, sent |-> 0, retried |-> 0,
     pending |-> 0, pendingRetries |-> 0,
     failed |-> FALSE,     \* the call ended by raising to its caller
     failedAt |-> 0,       \* Date.now() when the catch of the loop body ran
     ans |-> NoAnswer,     \* what the consumer answered to the last dispatch
     order |-> <<>>,       \* history: sort keys of the items dispatched, in order
     began |-> [items |-> 0, reschedules |-> 0]]
                           \* history: what the outbox held when the call began

\* sort: { nextAttemptAt: 1, createdAt: 1, _id: 1 }
SortKey(d) == <<d.nextAttemptAt, d.createdAt, d.id>>

KeyLeq(k1, k2) ==
    \/ k1[1] < k2[1]
    \/ k1[1] = k2[1] /\ k1[2] < k2[2]
    \/ k1[1] = k2[1] /\ k1[2] = k2[2] /\ k1[3] <= k2[3]

\* a filter that leaves out only the sent items
claimFilter_NotSent(d, t) == d.status # "sent" /\ d.nextAttemptAt <= t

\* a filter that does not look at nextAttemptAt
claimFilter_NoDue(d, t) == d.status = "pending"

\* claimOne: filter { status: "pending", nextAttemptAt: { $lte: now } }
claimFilter(d, t) == d.status = "pending" /\ d.nextAttemptAt <= t

\* the sort turned around: { nextAttemptAt: -1, createdAt: -1, _id: -1 }
claimOne_Descending(ob, t) ==
    LET due == {k \in 1..Len(ob) : claimFilter(ob[k], t)}
    IN  IF due = {} THEN 0
        ELSE CHOOSE k \in due : \A j \in due : KeyLeq(SortKey(ob[j]), SortKey(ob[k]))

\* claimOne: position in the collection of the document findOneAndUpdate
\* picks at time t, 0 when the filter matches none
claimOne(ob, t) ==
    LET due == {k \in 1..Len(ob) : claimFilter(ob[k], t)}
    IN  IF due = {} THEN 0
        ELSE CHOOSE k \in due : \A j \in due : KeyLeq(SortKey(ob[k]), SortKey(ob[j]))

\* a filter that does not look at _id: the update takes the first document
\* in processing
markSentFilter_AnyProcessing(d, id) == d.status = "processing"

\* markSent: filter { _id: id, status: "processing" }
markSentFilter(d, id) == d.id = id /\ d.status = "processing"

\* a filter that does not look at _id: the update takes the first document
scheduleRetryFilter_AnyDoc(d, id) == TRUE

\* scheduleRetry: filter { _id: doc._id }
scheduleRetryFilter(d, id) == d.id = id

\* updateOne: of the positions whose documents match, the first; 0 when none
FirstOf(m) == IF m = {} THEN 0 ELSE CHOOSE k \in m : \A j \in m : k <= j

base == 500

RECURSIVE Pow2(_)
Pow2(n) == IF n <= 0 THEN 1 ELSE 2 * Pow2(n - 1)

Min(a, b) == IF a < b THEN a ELSE b

\* a delay that grows linearly: base * (attempts - 1), nothing after the
\* first failure
retryDelayMs_Linear(docAttempts, maxBackoffMs) ==
    Min(maxBackoffMs, base * ((docAttempts + 1) - 1))

\* Math.max in the place of Math.min: maxBackoffMs becomes a lower bound
retryDelayMs_Max(docAttempts, maxBackoffMs) ==
    IF maxBackoffMs > base * Pow2((docAttempts + 1) - 1) THEN maxBackoffMs
    ELSE base * Pow2((docAttempts + 1) - 1)

\* scheduleRetry: delayMs = Math.min(maxBackoffMs, base * Math.pow(2, attempts - 1))
\* with attempts = (doc.attempts ?? 0) + 1
retryDelayMs(docAttempts, maxBackoffMs) ==
    Min(maxBackoffMs, base * Pow2((docAttempts + 1) - 1))

\* options a caller of processOutbox passes
BatchSizes == {1, 2}
Backoffs == {0, 500}

\* how many times scheduleRetry has set an item of the collection back to
\* pending: every update of an item adds one to attempts, the last update of a
\* sent item was markSent
RECURSIVE Reschedules(_)
Reschedules(ob) ==
    IF ob = <<>> THEN 0
    ELSE (ob[1].attempts - (IF ob[1].status = "sent" THEN 1 ELSE 0))
         + Reschedules(Tail(ob))

\* the call is over: what is left of it is the summary it returned (or that
\* it raised) and the options it was called with
Return(v) ==
    [IdleWk EXCEPT !.pc = "done", !.maxBatch = v.maxBatch,
                   !.maxBackoffMs = v.maxBackoffMs,
                   !.attempted = v.attempted, !.sent = v.sent,
                   !.retried = v.retried, !.pending = v.pending,
                   !.pendingRetries = v.pendingRetries, !.failed = v.failed]

\* a loop without its test i < maxBatch
NextRound_NoBound(v) ==
    [v EXCEPT !.i = @ + 1, !.doc = NoDoc, !.failedAt = 0, !.ans = NoAnswer,
              !.pc = "claim"]

\* end of one round of the loop: i++ and the test i < maxBatch
NextRound(v) ==
    [v EXCEPT !.i = @ + 1, !.doc = NoDoc, !.failedAt = 0, !.ans = NoAnswer,
              !.pc = IF v.i + 1 < v.maxBatch THEN "claim" ELSE "count"]

StartRun(w, maxBatch, maxBackoffMs) ==
    /\ wk[w].pc \in {"idle", "done"}
    /\ wk' = [wk EXCEPT ![w] =
                [IdleWk EXCEPT !.pc = IF 0 < maxBatch THEN "claim" ELSE "count",
                               !.maxBatch = maxBatch,
                               !.maxBackoffMs = maxBackoffMs,
                               !.began = [items |-> Len(outbox),
                                          reschedules |-> Reschedules(outbox)]]]
    /\ UNCHANGED <<now, seed, accounts, journals, ledger, outbox, acks, tx, res,
                   calls, nextOid, chaosOn, failsLeft>>

\* const doc = await claimOne(db); if (!doc) break; attempted++
Claim(w) ==
    /\ wk[w].pc = "claim"
    /\ LET k == claimOne(outbox, now)
       IN  IF k = 0
           THEN /\ wk' = [wk EXCEPT ![w].pc = "count"]
                /\ UNCHANGED outbox
           ELSE /\ outbox' = [outbox EXCEPT ![k].status = "processing"]
                /\ wk' = [wk EXCEPT ![w].doc = outbox'[k],
                                    ![w].attempted = @ + 1,
                                    ![w].pc = "dispatch"]
    /\ UNCHANGED <<now, seed, accounts, journals, ledger, acks, tx, res, calls,
                   nextOid, chaosOn, failsLeft>>

\* dispatchEvent against the events endpoint: the request reaches the handler
\* or not; a response that is not 2xx, a transport error and a timeout are
\* thrown, and the catch of the loop body counts the item as retried
Dispatch(w) ==
    /\ wk[w].pc = "dispatch"
    /\ LET v == [wk[w] EXCEPT !.order = Append(@, SortKey(wk[w].doc))]
           thrown == [v EXCEPT !.pc = "retry", !.retried = @ + 1, !.failedAt = now]
       IN  \/ \* the handler answers in time: res.ok decides
              \E storeError \in BOOLEAN :
                LET r == eventsHandler(acks, v.doc.journalId, storeError)
                IN  /\ storeError => failsLeft > 0
                    /\ failsLeft' = IF storeError THEN failsLeft - 1 ELSE failsLeft
                    /\ acks' = r.rows
                    /\ wk' = [wk EXCEPT ![w] =
                                IF r.ans.status \in 200..299
                                THEN [v EXCEPT !.pc = "mark", !.ans = r.ans]
                                ELSE [thrown EXCEPT !.ans = r.ans]]
           \/ \* transport error: the request does not reach the handler
              /\ failsLeft > 0
              /\ failsLeft' = failsLeft - 1
              /\ wk' = [wk EXCEPT ![w] = thrown]
              /\ UNCHANGED acks
           \/ \* the handler records the ack, its answer comes after the timeout
              LET r == eventsHandler(acks, v.doc.journalId, FALSE)
              IN  /\ failsLeft > 0
                  /\ failsLeft' = failsLeft - 1
                  /\ acks' = r.rows
                  /\ wk' = [wk EXCEPT ![w] = [thrown EXCEPT !.ans = r.ans]]
    /\ UNCHANGED <<now, seed, accounts, journals, ledger, outbox, tx, res, calls,
                   nextOid, chaosOn>>

\* markSent; when it matches no document its error is caught by the catch of
\* the loop body: retried++ and scheduleRetry
MarkSent(w) ==
    /\ wk[w].pc = "mark"
    /\ LET k == FirstOf({j \in 1..Len(outbox) : markSentFilter(outbox[j], wk[w].doc.id)})
       IN  IF k # 0
           THEN /\ outbox' = [outbox EXCEPT ![k].status = "sent",
                                            ![k].attempts = @ + 1]
                /\ wk' = [wk EXCEPT ![w] = NextRound([wk[w] EXCEPT !.sent = @ + 1])]
           ELSE /\ wk' = [wk EXCEPT ![w].retried = @ + 1, ![w].pc = "retry",
                                    ![w].failedAt = now]
                /\ UNCHANGED outbox
    /\ UNCHANGED <<now, seed, accounts, journals, ledger, acks, tx, res, calls,
                   nextOid, chaosOn, failsLeft>>

\* scheduleRetry, called from the catch in the same turn of the event loop:
\* next = Date.now() + delayMs is computed at the time of the failure, the
\* update reaches the store afterwards; when it matches no document its error
\* leaves processOutbox
ScheduleRetry(w) ==
    /\ wk[w].pc = "retry"
    /\ LET k == FirstOf({j \in 1..Len(outbox) :
                              scheduleRetryFilter(outbox[j], wk[w].doc.id)})
           next == wk[w].failedAt
                     + retryDelayMs(wk[w].doc.attempts, wk[w].maxBackoffMs)
       IN  IF k # 0
           THEN /\ outbox' = [outbox EXCEPT ![k].status = "pending",
                                            ![k].nextAttemptAt = next,
                                            ![k].attempts = @ + 1]
                /\ wk' = [wk EXCEPT ![w] = NextRound(wk[w])]
           ELSE /\ wk' = [wk EXCEPT ![w] = Return([wk[w] EXCEPT !.failed = TRUE])]
                /\ UNCHANGED outbox
    /\ UNCHANGED <<now, seed, accounts, journals, ledger, acks, tx, res, calls,
                   nextOid, chaosOn, failsLeft>>

\* countQueue and the return of the summary
CountQueue(w) ==
    /\ wk[w].pc = "count"
    /\ wk' = [wk EXCEPT ![w] = Return(
                [wk[w] EXCEPT
                    !.pending = Cardinality({k \in 1..Len(outbox) :
                        outbox[k].status = "pending" /\ outbox[k].nextAttemptAt <= now}),
                    !.pendingRetries = Cardinality({k \in 1..Len(outbox) :
                        outbox[k].status = "pending" /\ outbox[k].nextAttemptAt > now})])]
    /\ UNCHANGED <<now, seed, accounts, journals, ledger, outbox, acks, tx, res,
                   calls, nextOid, chaosOn, failsLeft>>

WorkerStep(w) ==
    \/ Claim(w)
    \/ Dispatch(w)
    \/ MarkSent(w)
    \/ ScheduleRetry(w)
    \/ CountQueue(w)

\* the clock advances to the next instant while an item waits for its time;
\* when no item waits, the dispatcher does the same at any later instant
Tick ==
    /\ \E k \in 1..Len(outbox) :
          outbox[k].status = "pending" /\ outbox[k].nextAttemptAt > now
    /\ now' = now + base
    /\ UNCHANGED <<seed, accounts, journals, ledger, outbox, acks, tx, res, calls,
                   nextOid, wk, chaosOn, failsLeft>>

(***************************************************************************)
(* Initial state and the posting specification.                            *)
(***************************************************************************)
Init ==
    /\ now = 0
    /\ seed = SeedAccounts
    /\ accounts = SeedAccounts
    /\ journals = <<>>
    /\ ledger = <<>>
    /\ outbox = <<>>
    /\ acks = <<>>
    /\ tx = [p \in Posters |-> IdleTx]
    /\ res = [p \in Posters |-> NoRes]
    /\ calls = 0
    /\ nextOid = 1
    /\ wk = [w \in Workers |-> IdleWk]
    /\ chaosOn = TRUE
    /\ failsLeft = MaxFails

NextPost == \E p \in Posters : PostStep(p)

SpecPost == Init /\ [][NextPost]_vars

(***************************************************************************)
(* Validation: one caller posts requests of every shape, valid or not, one *)
(* call after the other.                                                   *)
(***************************************************************************)
NextPreflight ==
    \/ \E body \in PreflightBodies : StartPost("p1", body)
    \/ Probe("p1")
    \/ CreateHeader("p1")
    \/ ApplyLine("p1")
    \/ Finish("p1")
    \/ Commit("p1")

SpecPreflight == Init /\ [][NextPreflight]_vars

(***************************************************************************)
(* The dispatcher specification.  It starts at time 0 in a state of the    *)
(* posting specification: caller p1 has posted BodyJ1, whose outbox item   *)
(* is committed, and its next call, with BodyJ7, has applied its lines and *)
(* is about to enqueue.  That call goes on to its commit while two callers *)
(* each call processOutbox once, with options of their choice, and the     *)
(* clock advances.                                                         *)
(***************************************************************************)
\* the store after BodyJ1 was posted on the seed
AccountsAfterJ1 ==
    [a \in DOMAIN SeedAccounts |->
        [SeedAccounts[a] EXCEPT !.buckets =
            IF a = BodyJ1.lines[1].accountId THEN applyInc(@, BodyJ1.lines[1])
            ELSE IF a = BodyJ1.lines[2].accountId THEN applyInc(@, BodyJ1.lines[2])
            ELSE @]]

JournalsAfterJ1 == markJournalPosted(<<createJournalHeader(BodyJ1, 0)>>, "J1")

\* the session of the call with BodyJ7 after its two rounds of the loop
SessionJ7 ==
    [IdleTx EXCEPT
        !.pc = "finish", !.body = BodyJ7,
        !.snapJ = JournalsAfterJ1,
        !.view = [a \in DOMAIN AccountsAfterJ1 \cup {"N"} |->
                    IF a = "N" THEN newAccount(BodyJ7.lines[1])
                    ELSE IF a = BodyJ7.lines[2].accountId
                    THEN [AccountsAfterJ1[a] EXCEPT
                            !.buckets = applyInc(@, BodyJ7.lines[2])]
                    ELSE AccountsAfterJ1[a]],
        !.dirty = {"N", BodyJ7.lines[2].accountId},
        !.hdr = <<createJournalHeader(BodyJ7, 0)>>,
        !.led = <<appendLedgerEntry("J7", 1, BodyJ7.lines[1], 0),
                  appendLedgerEntry("J7", 2, BodyJ7.lines[2], 0)>>,
        !.lineNo = 2]

PostedJ1 ==
    /\ now = 0
    /\ seed = SeedAccounts
    /\ accounts = AccountsAfterJ1
    /\ journals = JournalsAfterJ1
    /\ ledger = <<appendLedgerEntry("J1", 1, BodyJ1.lines[1], 0),
                  appendLedgerEntry("J1", 2, BodyJ1.lines[2], 0)>>
    /\ outbox = enqueueOutboxPosted(<<>>, <<>>, 1, "J1", 0).session
    /\ acks = <<>>
    /\ tx = [p \in Posters |-> IF p = "p1" THEN SessionJ7 ELSE IdleTx]
    /\ res = [p \in Posters |-> NoRes]
    /\ calls = 2
    /\ nextOid = 2
    /\ wk = [w \in Workers |-> IdleWk]
    /\ chaosOn = FALSE

InitOutbox == PostedJ1 /\ failsLeft = MaxFails

NextOutbox ==
    \/ Finish("p1")
    \/ Commit("p1")
    \/ \E w \in Workers, mb \in BatchSizes, bo \in Backoffs :
          wk[w].pc = "idle" /\ StartRun(w, mb, bo)
    \/ \E w \in Workers : WorkerStep(w)
    \/ Tick

SpecOutbox == InitOutbox /\ [][NextOutbox]_vars

(***************************************************************************)
(* The dispatcher under fair, repeated invocation: each caller calls       *)
(* processOutbox again and again with the default options, every call that *)
(* began takes its next step, the clock advances, and the consumer fails   *)
(* at most MaxLiveFails deliveries.                                        *)
(***************************************************************************)
\* processOutbox(db): const maxBatch = options.maxBatch ?? 50
DefaultMaxBatch == 50

\* processOutbox(db): const maxBackoffMs = options.maxBackoffMs ?? 60_000
DefaultMaxBackoffMs == 60000

\* the server's loop calls processOutbox(db), without options
Invoke(w) == StartRun(w, DefaultMaxBatch, DefaultMaxBackoffMs)

NextLive ==
    \/ Finish("p1")
    \/ Commit("p1")
    \/ \E w \in Workers : Invoke(w)
    \/ \E w \in Workers : WorkerStep(w)
    \/ Tick

Fairness ==
    /\ \A w \in Workers : WF_vars(Invoke(w))
    /\ \A w \in Workers : WF_vars(WorkerStep(w))
    /\ WF_vars(Tick)

InitLive == PostedJ1 /\ failsLeft = MaxLiveFails

SpecLive == InitLive /\ [][NextLive]_vars /\ Fairness

(***************************************************************************)
(* What the committed journals amount to, computed from the seed.          *)
(***************************************************************************)
\* change of bucket b of account a by one line
LineDelta(line, a, b) ==
    IF line.accountId # a \/ line.fromBucket = line.toBucket THEN 0
    ELSE (IF line.toBucket = b THEN NumberOf(line.amount) ELSE 0)
         - (IF line.fromBucket = b THEN NumberOf(line.amount) ELSE 0)

RECURSIVE LinesDelta(_, _, _)
LinesDelta(lines, a, b) ==
    IF lines = <<>> THEN 0
    ELSE LineDelta(lines[1], a, b) + LinesDelta(Tail(lines), a, b)

RECURSIVE JournalsDelta(_, _, _)
JournalsDelta(js, a, b) ==
    IF js = <<>> THEN 0
    ELSE LinesDelta(js[1].lines, a, b) + JournalsDelta(Tail(js), a, b)

TouchedBy(js) ==
    UNION {{js[i].lines[k].accountId : k \in 1..Len(js[i].lines)} : i \in 1..Len(js)}

\* the currency an account created by the committed journals got
CreatedCurrency(js, a) ==
    LET i == CHOOSE i \in 1..Len(js) : \E k \in 1..Len(js[i].lines) :
                                          js[i].lines[k].accountId = a
    IN  js[i].lines[1].currency

ExpectedAccounts ==
    [a \in DOMAIN seed \cup TouchedBy(journals) |->
        [currency |-> IF a \in DOMAIN seed THEN seed[a].currency
                      ELSE CreatedCurrency(journals, a),
         buckets |-> [b \in Buckets |->
                        (IF a \in DOMAIN seed THEN seed[a].buckets[b] ELSE 0)
                          + JournalsDelta(journals, a, b)]]]

EntriesOf(jid) == SelectSeq(ledger, LAMBDA e : e.journalId = jid)
ItemsOf(jid)   == SelectSeq(outbox, LAMBDA o : o.journalId = jid)
HeadersOf(jid) == SelectSeq(journals, LAMBDA j : j.journalId = jid)

Returned(p) == tx[p].pc = "done"

\* every committed journal is in the store exactly once, with all its effects
ExactlyOnce ==
    /\ accounts = ExpectedAccounts
    /\ \A i \in 1..Len(journals) :
          /\ Len(HeadersOf(journals[i].journalId)) = 1
          /\ Len(SelectSeq(journals, LAMBDA j :
                    j.idempotencyKey = journals[i].idempotencyKey)) = 1
          /\ Len(EntriesOf(journals[i].journalId)) = Len(journals[i].lines)
          /\ Len(ItemsOf(journals[i].journalId)) = 1

(***************************************************************************)
(* Properties of the poster.                                               *)
(***************************************************************************)
FailedInTxn(p) ==
    /\ Returned(p)
    /\ res[p].outcome \in {"InsufficientFunds", "NegativeBalance", "ChaosFailure"}

\* C1 (atomicity): once a postJournal call has failed inside its transaction,
\* the committed store shows nothing of that posting: unless another call
\* committed a journal under its journalId, there is no header, no ledger
\* entry and no outbox item with its journalId, and the accounts (their set,
\* currencies and buckets) are exactly what the seed and the committed
\* journals make them: no account the failed posting created, no bucket moved.
C1_Atomicity ==
    \A p \in Posters :
        FailedInTxn(p) =>
            /\ accounts = ExpectedAccounts
            /\ Len(HeadersOf(tx[p].body.journalId)) = 0 =>
                  /\ Len(EntriesOf(tx[p].body.journalId)) = 0
                  /\ Len(ItemsOf(tx[p].body.journalId)) = 0
            /\ \A i \in 1..Len(outbox) : Len(HeadersOf(outbox[i].journalId)) = 1
            /\ \A i \in 1..Len(ledger) : Len(HeadersOf(ledger[i].journalId)) = 1

\* a call failed by chaos after everything was written, another failed on its
\* second line after creating account N on its first
C1_Witness ==
    \E p, q \in Posters :
        /\ FailedInTxn(p) /\ res[p].outcome = "ChaosFailure"
        /\ FailedInTxn(q) /\ res[q].outcome = "InsufficientFunds"
        /\ tx[q].body = BodyJ6
        /\ "N" \notin DOMAIN accounts

\* C2 (idempotency): a postJournal call made with the body of a journal that
\* is already committed returns success with that journalId, and after any
\* number of such calls the store holds the journal exactly once: one header,
\* one ledger entry per line, one outbox item, each bucket moved once.
C2_Idempotency ==
    /\ ExactlyOnce
    /\ \A p \in Posters :
          Returned(p) /\ tx[p].replay =>
              /\ res[p].outcome = "ok"
              /\ res[p].journalId = tx[p].body.journalId

\* the body of J1 was posted and then replayed twice (N = 3)
C2_Witness ==
    /\ \A p \in Posters :
          /\ Returned(p) /\ tx[p].replay /\ tx[p].body = BodyJ1
          /\ res[p].outcome = "ok"
    /\ calls = 3
    /\ Len(journals) = 1 /\ Len(ledger) = 2 /\ Len(outbox) = 1
    /\ accounts["A"].buckets["available"] = 200

\* the accounts the non-negative rule exempts by default
DefaultOverdraft == {"ESCROW_POOL"}

\* C3 (no negative balances): in every committed state every bucket of every
\* account outside the default overdraft set is >= 0.
C3_NoNegative ==
    \A a \in DOMAIN accounts \ DefaultOverdraft :
        \A b \in Buckets : accounts[a].buckets[b] >= 0

\* a posting was rejected for lack of funds after another one drew on the same
\* account, and the exempt pool account is below zero
C3_Witness ==
    /\ \E p \in Posters : Returned(p) /\ res[p].outcome = "InsufficientFunds"
    /\ accounts["A"].buckets["available"] < 400
    /\ accounts["ESCROW_POOL"].buckets["available"] < 0

SameKeyOrId(b1, b2) ==
    b1.idempotencyKey = b2.idempotencyKey \/ b1.journalId = b2.journalId

\* C4 (same key, concurrently): no call ever ends with the duplicate-key error;
\* of two calls that share the idempotencyKey or the journalId, each one that
\* did not fail on funds or chaos returns success; there is one header per
\* key and per journalId and its effects are in the store once.
C4_SameKeyRace ==
    /\ \A p \in Posters : res[p].outcome # "DuplicateKey"
    /\ \A p, q \in Posters :
          /\ p # q /\ Returned(p) /\ Returned(q)
          /\ SameKeyOrId(tx[p].body, tx[q].body)
          /\ ~FailedInTxn(p) /\ ~FailedInTxn(q)
          /\ preflightValidate(tx[p].body) = "ok"
          /\ preflightValidate(tx[q].body) = "ok"
          => res[p].outcome = "ok" /\ res[q].outcome = "ok"
    /\ ExactlyOnce

\* both callers raced on key k1: both were in flight before either committed,
\* the loser met the winner's header insert and was run again, both got success
C4_Witness ==
    \E p, q \in Posters :
        /\ p # q /\ Returned(p) /\ Returned(q)
        /\ tx[p].body.idempotencyKey = tx[q].body.idempotencyKey
        /\ ~tx[p].replay /\ ~tx[q].replay
        /\ tx[q].retried
        /\ res[p].outcome = "ok" /\ res[q].outcome = "ok"
        /\ Len(journals) = 1

\* C5 (commit visibility): every committed header is posted, has one ledger
\* entry per line, numbered 1..n in line order and carrying that line, and has
\* one outbox item; every ledger entry and outbox item has its posted header.
C5_CommitVisibility ==
    /\ \A i \in 1..Len(journals) :
          LET j == journals[i]
              es == EntriesOf(j.journalId)
          IN  /\ j.status = "posted"
              /\ Len(es) = Len(j.lines)
              /\ \A k \in 1..Len(es) :
                    /\ es[k].lineNo = k
                    /\ es[k].accountId = j.lines[k].accountId
                    /\ es[k].amount = j.lines[k].amount
                    /\ es[k].transition = j.lines[k].transition
              /\ Len(ItemsOf(j.journalId)) = 1
    /\ \A i \in 1..Len(ledger) :
          \E k \in 1..Len(journals) :
              journals[k].journalId = ledger[i].journalId /\ journals[k].status = "posted"
    /\ \A i \in 1..Len(outbox) :
          \E k \in 1..Len(journals) :
              journals[k].journalId = outbox[i].journalId /\ journals[k].status = "posted"

C5_Witness ==
    /\ Len(journals) = 2 /\ Len(ledger) = 4 /\ Len(outbox) = 2
    /\ \E p \in Posters : tx[p].pc = "commit" /\ Len(tx[p].led) = 2

RECURSIVE LinesTotal(_)
LinesTotal(lines) ==
    IF lines = <<>> THEN 0 ELSE cents(lines[1].amount) + LinesTotal(Tail(lines))

DebitCents(lines) ==
    LinesTotal(SelectSeq(lines, LAMBDA l : l.side = "debit"))
CreditCents(lines) ==
    LinesTotal(SelectSeq(lines, LAMBDA l : l.side = "credit"))

\* C6 (conservation): every committed journal has equal debit and credit
\* totals in integer cents; a call with an unbalanced body ends with the
\* Unbalanced error and no header, ledger entry or outbox item carries its
\* journalId.
C6_Conservation ==
    /\ \A i \in 1..Len(journals) :
          DebitCents(journals[i].lines) = CreditCents(journals[i].lines)
    /\ \A p \in Posters :
          Returned(p) /\ DebitCents(tx[p].body.lines) # CreditCents(tx[p].body.lines)
             => /\ res[p].outcome = "Unbalanced"
                /\ Len(HeadersOf(tx[p].body.journalId)) = 0
                /\ Len(EntriesOf(tx[p].body.journalId)) = 0
                /\ Len(ItemsOf(tx[p].body.journalId)) = 0

C6_Witness ==
    /\ \E p \in Posters : Returned(p) /\ tx[p].body = BodyJ5
                          /\ res[p].outcome = "Unbalanced"
    /\ Len(journals) >= 1


(***************************************************************************)
(* The dispatcher's claims.                                                *)
(***************************************************************************)
\* a call holds the item it claimed until it marked it sent or rescheduled it
Holding(w) == wk[w].pc \in {"dispatch", "mark", "retry"}

InRun(w) == wk[w].pc \notin {"idle", "done"}

Sent(j) == \E k \in 1..Len(outbox) : outbox[k].journalId = j /\ outbox[k].status = "sent"

Enqueued(j) == \E k \in 1..Len(outbox) : outbox[k].journalId = j

AckRows(j) == Cardinality({i \in 1..Len(acks) : acks[i].journalId = j})

PostedIds == {BodyJ1.journalId, BodyJ7.journalId}

\* C7: claim exclusivity.  No outbox item is held by two processOutbox calls
\* at the same time, and an item a call holds is in status processing in the
\* store, so that claimOne hands it to nobody else before it is marked sent
\* or rescheduled.
C7_ClaimExclusive ==
    /\ \A w1, w2 \in Workers :
          (w1 # w2 /\ Holding(w1) /\ Holding(w2)) => wk[w1].doc.id # wk[w2].doc.id
    /\ \A w \in Workers : Holding(w) =>
          \E k \in 1..Len(outbox) :
              /\ outbox[k].id = wk[w].doc.id
              /\ outbox[k].status = "processing"

\* two calls run at once, each holding an item of its own
C7_Witness ==
    /\ Holding("w1") /\ Holding("w2")
    /\ wk["w1"].doc.id # wk["w2"].doc.id

\* C8: outbox liveness.  Under fair, repeated invocation of processOutbox and
\* a consumer that fails only finitely often, every committed outbox item
\* eventually is in status sent with exactly one ack row for its journalId.
C8_OutboxLiveness ==
    \A j \in PostedIds : Enqueued(j) ~> (Sent(j) /\ AckRows(j) = 1)

\* an item is sent with one ack row after an attempt that failed
C8_Witness ==
    \E k \in 1..Len(outbox) :
        /\ outbox[k].status = "sent"
        /\ outbox[k].attempts >= 2
        /\ AckRows(outbox[k].journalId) = 1

\* the status changes the claim allows
StatusSteps == {<<"pending", "processing">>, <<"processing", "sent">>,
                <<"processing", "pending">>}

\* C9: the status of an outbox item changes only pending -> processing,
\* processing -> sent and processing -> pending, and the status of a sent
\* item never changes again, whatever step is taken.
C9_StatusTransitions ==
    [][\A k \in 1..Len(outbox) :
          /\ Len(outbox') >= Len(outbox)
          /\ outbox'[k].id = outbox[k].id
          /\ \/ outbox'[k].status = outbox[k].status
             \/ <<outbox[k].status, outbox'[k].status>> \in StatusSteps
          /\ outbox[k].status = "sent" => outbox'[k].status = "sent"]_vars

\* an item is sent and a later call has looked for work since
C9_Witness ==
    /\ \E k \in 1..Len(outbox) : outbox[k].status = "sent"
    /\ \E k \in 1..Len(outbox) : outbox[k].status = "pending" /\ outbox[k].attempts >= 1
    /\ \E w \in Workers : wk[w].pc = "count" /\ wk[w].attempted = 0

NonDecreasing(keys) ==
    \A i \in 1..Len(keys) : \A j \in i..Len(keys) : KeyLeq(keys[i], keys[j])

\* the rounds of the call that ended in scheduleRetry
OwnReschedules(w) == wk[w].retried - (IF wk[w].pc = "retry" THEN 1 ELSE 0)

\* since the call of w began no posting has committed an outbox item and no
\* other call has rescheduled one
Quiet(w) ==
    /\ Len(outbox) = wk[w].began.items
    /\ Reschedules(outbox) = wk[w].began.reschedules + OwnReschedules(w)

C11_BatchBound ==
    /\ [](\A w \in Workers :
            wk[w].pc # "idle" =>
                /\ wk[w].attempted <= wk[w].maxBatch
                /\ Len(wk[w].order) <= wk[w].maxBatch
                /\ wk[w].sent + wk[w].retried <= wk[w].attempted)
    /\ [][\A w \in Workers :
            (InRun(w) /\ wk[w].attempted >= wk[w].maxBatch /\ wk'[w] # wk[w]) =>
                \A k \in 1..Len(outbox) :
                    outbox[k].status = "pending" => outbox'[k] = outbox[k]]_vars

\* a call with maxBatch 1 returned after one item while another item was due
\* and pending; it is still pending and due
C11_Witness ==
    \E w \in Workers :
        /\ wk[w].pc = "done" /\ ~wk[w].failed
        /\ wk[w].maxBatch = 1 /\ wk[w].attempted = 1
        /\ wk[w].pending >= 1
        /\ \E k \in 1..Len(outbox) :
              outbox[k].status = "pending" /\ outbox[k].nextAttemptAt <= now

\* C12: only due items are claimed.  An item enters status processing only
\* from status pending with nextAttemptAt not later than the current time,
\* and a step of claimOne leaves every other item (pending but not yet due,
\* processing or sent) exactly as it was; the document it hands to its caller
\* is the one it set to processing.
C12_OnlyDueClaimed ==
    [][\A k \in 1..Len(outbox) :
          /\ (outbox'[k].status = "processing" /\ outbox[k].status # "processing")
                => (outbox[k].status = "pending" /\ outbox[k].nextAttemptAt <= now)
          /\ \A w \in Workers :
                (wk[w].pc = "claim" /\ wk'[w] # wk[w]) =>
                    /\ ~(outbox[k].status = "pending" /\ outbox[k].nextAttemptAt <= now)
                          => outbox'[k] = outbox[k]
                    /\ outbox'[k] # outbox[k] =>
                          (wk'[w].doc = outbox'[k] /\ wk'[w].pc = "dispatch")]_vars

\* claimOne found nothing to claim while one item was pending but not yet due
\* and the other was processing or sent
C12_Witness ==
    \E w \in Workers :
        /\ wk[w].pc = "count" /\ wk[w].i < wk[w].maxBatch
        /\ \E k \in 1..Len(outbox) :
              outbox[k].status = "pending" /\ outbox[k].nextAttemptAt > now
        /\ \E k \in 1..Len(outbox) : outbox[k].status \in {"processing", "sent"}

C15_AckIdempotence ==
    /\ [](\A i, j \in 1..Len(acks) : acks[i].journalId = acks[j].journalId => i = j)
    /\ [][\A w \in Workers :
            (wk[w].pc = "dispatch" /\ wk'[w].pc # "dispatch") =>
                LET jid == wk[w].doc.journalId
                    had == \E i \in 1..Len(acks) : acks[i].journalId = jid
                    a   == wk'[w].ans
                IN  /\ a.evt = "event.ack" =>
                          (a.status = 200 /\ ~had
                             /\ acks' = Append(acks, [journalId |-> jid]))
                    /\ a.evt = "event.duplicate_ack" =>
                          (a.status = 200 /\ had /\ acks' = acks)
                    /\ a.evt = "events.failed" => (a.status = 500 /\ acks' = acks)
                    /\ a = NoAnswer => acks' = acks
                    /\ a.status \in {0, 200, 500}
                    /\ (had /\ failsLeft' = failsLeft) =>
                          a = [status |-> 200, evt |-> "event.duplicate_ack"]
                    /\ a.status # 200 => failsLeft' = failsLeft - 1
                    /\ wk'[w].pc = "mark" <=> (a.status = 200 /\ wk'[w].failedAt = 0
                                               /\ wk'[w].retried = wk[w].retried)]_vars

\* a journal was acknowledged, its delivery repeated, and the repeated request
\* collided on the index and was answered 200; another request met a store
\* error and was answered 500
C15_Witness ==
    \E w1, w2 \in Workers :
        /\ wk[w1].ans = [status |-> 200, evt |-> "event.duplicate_ack"]
        /\ wk[w1].pc = "mark"
        /\ AckRows(wk[w1].doc.journalId) = 1
        /\ wk[w2].ans = [status |-> 500, evt |-> "events.failed"]
        /\ wk[w2].pc = "retry"
        /\ AckRows(wk[w2].doc.journalId) = 0

(***************************************************************************)
(* Validation of requests.                                                 *)
(***************************************************************************)
\* the table of the claim: transition, fromBucket, toBucket
TransitionTable ==
    {<<"reserve", "available", "pending">>,
     <<"lock", "pending", "escrow">>, <<"lock", "available", "escrow">>,
     <<"finalize", "escrow", "outflow">>,
     <<"release", "pending", "available">>,
     <<"revert", "escrow", "available">>}

FieldErrors == {"Missing fromBucket", "Missing toBucket",
                "Invalid fromBucket", "Invalid toBucket"}

FailsSchema(b) ==
    \/ Len(b.lines) < 2
    \/ b.journalId = "" \/ b.idempotencyKey = ""
    \/ \E i \in 1..Len(b.lines) :
          \/ b.lines[i].accountId = ""
          \/ b.lines[i].transition \notin
                {"reserve", "lock", "finalize", "release", "revert"}
          \/ b.lines[i].side \notin {"debit", "credit"}
          \/ b.lines[i].fromBucket \notin
                {"available", "pending", "escrow", "outflow", None}
          \/ b.lines[i].toBucket \notin
                {"available", "pending", "escrow", "outflow", None}
          \/ b.lines[i].currency \notin {"USD", "EUR"}
          \/ ~MatchesDecimal(b.lines[i].amount, 2)

FailsPreflight(b) ==
    \/ \E i, j \in 1..Len(b.lines) : b.lines[i].currency # b.lines[j].currency
    \/ \E i \in 1..Len(b.lines) :
          /\ b.lines[i].fromBucket # b.lines[i].toBucket
          /\ <<b.lines[i].transition, b.lines[i].fromBucket, b.lines[i].toBucket>>
                \notin TransitionTable
    \/ DebitCents(b.lines) # CreditCents(b.lines)

PreflightErrors == FieldErrors \cup {"ValidationError", "CurrencyMismatch", "Unbalanced"}

\* C17: preflight failures write nothing.  When a request fails the schema or
\* a preflight rule, postJournal raises in the step that receives it: the
\* call is over with a validation error, no session or transaction was
\* opened, and accounts, journals, ledger_entries and outbox are unchanged.
\* A request that fails neither goes on to open its transaction.
C17_PreflightWritesNothing ==
    [][\A p \in Posters :
          (tx[p].pc \in {"idle", "done"} /\ tx'[p] # tx[p]) =>
              LET b == tx'[p].body
              IN  IF FailsSchema(b) \/ FailsPreflight(b)
                  THEN /\ tx'[p].pc = "done"
                       /\ res'[p].outcome \in PreflightErrors
                       /\ tx'[p].hdr = <<>> /\ tx'[p].led = <<>> /\ tx'[p].obx = <<>>
                       /\ tx'[p].dirty = {}
                       /\ UNCHANGED <<storeVars, nextOid>>
                  ELSE /\ tx'[p].pc = "begin"
                       /\ UNCHANGED <<storeVars, nextOid>>]_vars

\* a request of two currencies was rejected after a journal had been posted;
\* the store holds that journal and nothing else
C17_Witness ==
    \E p \in Posters :
        /\ Returned(p)
        /\ tx[p].body = BodyMixed
        /\ res[p].outcome = "CurrencyMismatch"
        /\ Len(journals) = 1 /\ Len(ledger) = 2 /\ Len(outbox) = 1
        /\ accounts = ExpectedAccounts

\* C18: funds guard.  A line with fromBucket # toBucket is applied if and
\* only if, at the moment of the update, the currency stored for the account
\* (the line's own for an account the call just created) equals the line's
\* currency and either the account is ESCROW_POOL or its from bucket holds at
\* least the amount; applied means the from bucket goes down and the to
\* bucket goes up by the amount, for ESCROW_POOL also below zero.  Otherwise
\* the call fails with the insufficient-funds / currency-mismatch error,
\* unless the update met a write conflict and the callback starts over.
C18_FundsGuard ==
    [][\A p \in Posters :
          (tx[p].pc = "line"
             /\ (tx'[p].pc # "line" \/ tx'[p].lineNo # tx[p].lineNo)) =>
              LET t == tx[p]
                  n == t.lineNo + 1
                  line == t.body.lines[n]
                  a == line.accountId
                  stored == IF a \in DOMAIN t.view THEN t.view[a]
                            ELSE [currency |-> line.currency,
                                  buckets |-> [b \in Buckets |-> 0]]
                  amount == cents(line.amount)
                  ok == /\ stored.currency = line.currency
                        /\ \/ a = "ESCROW_POOL"
                           \/ stored.buckets[line.fromBucket] >= amount
              IN  line.fromBucket # line.toBucket =>
                    \/ tx'[p].pc = "begin"
                    \/ /\ ok
                       /\ tx'[p].lineNo = n
                       /\ tx'[p].pc \in {"line", "finish"}
                       /\ tx'[p].view[a].currency = stored.currency
                       /\ \A b \in Buckets :
                             tx'[p].view[a].buckets[b] =
                                 stored.buckets[b]
                                   + (IF b = line.toBucket THEN amount ELSE 0)
                                   - (IF b = line.fromBucket THEN amount ELSE 0)
                    \/ /\ ~ok
                       /\ tx'[p].pc = "done"
                       /\ res'[p].outcome = "InsufficientFunds"]_vars

\* in one call the pool's available bucket was driven below zero and the line
\* applied; another call failed on a EUR line for the USD account A, whose
\* available bucket held more than the amount
C18_Witness ==
    \E p, q \in Posters :
        /\ tx[p].pc \in InTxn /\ tx[p].lineNo >= 1
        /\ "ESCROW_POOL" \in tx[p].dirty
        /\ tx[p].view["ESCROW_POOL"].buckets["available"] < 0
        /\ Returned(q) /\ tx[q].body = BodyJ8
        /\ res[q].outcome = "InsufficientFunds"
        /\ accounts["A"].buckets["available"] >= cents(BodyJ8.lines[2].amount)

\* C19: idempotency probe.  When a valid request reaches its probe while a
\* committed journal has its idempotencyKey or its journalId, the callback
\* returns at once with that journal found and nothing written in the
\* session, and the call then returns success carrying the journalId of the
\* found journal, leaving accounts, journals, ledger_entries and outbox as
\* they were; the lines and the other identifier of the request play no part.
C19_IdempotencyProbe ==
    [][\A p \in Posters :
          /\ (tx[p].pc = "begin" /\ tx'[p].pc # "begin") =>
                LET m == {i \in 1..Len(journals) :
                            \/ journals[i].idempotencyKey = tx[p].body.idempotencyKey
                            \/ journals[i].journalId = tx[p].body.journalId}
                IN  IF m # {}
                    THEN /\ tx'[p].pc = "commit"
                         /\ \E i \in m : tx'[p].already = journals[i].journalId
                         /\ tx'[p].hdr = <<>> /\ tx'[p].led = <<>>
                         /\ tx'[p].obx = <<>> /\ tx'[p].dirty = {}
                    ELSE tx'[p].pc = "header" /\ tx'[p].already = None
          /\ (tx[p].pc = "commit" /\ tx[p].already # None /\ tx'[p].pc # "commit") =>
                /\ UNCHANGED <<storeVars, nextOid>>
                /\ tx'[p].pc = "done"
                /\ res'[p] = [outcome |-> "ok", journalId |-> tx[p].already]]_vars

\* a request with the idempotency key of J1 under another journalId and with
\* other lines returned success carrying J1; J1 is all the store holds
C19_Witness ==
    \E p \in Posters :
        /\ Returned(p)
        /\ tx[p].body = BodyJ3
        /\ res[p] = [outcome |-> "ok", journalId |-> "J1"]
        /\ Len(journals) = 1 /\ journals[1].lines = BodyJ1.lines
        /\ Len(ledger) = 2 /\ Len(outbox) = 1
        /\ accounts = ExpectedAccounts

\* C20: rollback then retry.  When a caller's call failed through the chaos
\* hook and the caller's next call carries the same body, with no other
\* caller posting in between, the call finds no journal at its probe (the
\* failed attempt left no header), it fails only if the chaos hook fires
\* again, and when it returns success the journal is in the store exactly
\* once, with a header in status posted, one ledger entry per line, one outbox
\* item, and every bucket moved once.
C20_RollbackThenRetry ==
    \A p \in Posters :
        tx[p].afterChaos =>
            LET jid == tx[p].body.journalId
            IN  /\ ~tx[p].replay
                /\ tx[p].pc \in InTxn =>
                      (tx[p].already = None /\ tx[p].snapJ = journals)
                /\ tx[p].pc \in {"begin", "header"} =>
                      (Len(HeadersOf(jid)) = 0 /\ Len(EntriesOf(jid)) = 0
                         /\ Len(ItemsOf(jid)) = 0 /\ accounts = ExpectedAccounts)
                /\ Returned(p) =>
                      /\ res[p].outcome \in {"ok", "ChaosFailure"}
                      /\ res[p].outcome = "ok" =>
                            /\ res[p].journalId = jid
                            /\ Len(HeadersOf(jid)) = 1
                            /\ HeadersOf(jid)[1].lines = tx[p].body.lines
                            /\ HeadersOf(jid)[1].status = "posted"
                            /\ Len(EntriesOf(jid)) = Len(tx[p].body.lines)
                            /\ Len(ItemsOf(jid)) = 1
                            /\ accounts = ExpectedAccounts

\* BodyJ1 failed through the chaos hook, was posted again and succeeded: one
\* header, two ledger entries, one outbox item, 2 units moved on each account
C20_Witness ==
    \E p \in Posters :
        /\ tx[p].afterChaos /\ Returned(p)
        /\ tx[p].body = BodyJ1
        /\ res[p] = [outcome |-> "ok", journalId |-> "J1"]
        /\ Len(journals) = 1 /\ Len(ledger) = 2 /\ Len(outbox) = 1
        /\ accounts = AccountsAfterJ1

(***************************************************************************)
(* The account history.  A caller posts, one call after the other, while   *)
(* the clock advances, so that ledger entries carry different creation     *)
(* times and, through lines that move nothing, different currencies on one *)
(* account.                                                                *)
(***************************************************************************)
MaxElapse == 2     \* instants the clock advances while the caller posts

\* a EUR journal whose two lines move nothing: ESCROW_POOL is a USD account
BodyJ9 == Body("J9", "k9",
    <<Line("ESCROW_POOL", "lock", "escrow", "escrow", "credit", <<"1">>, "EUR"),
      Line("A", "reserve", "pending", "pending", "debit", <<"1">>, "EUR")>>)

HistoryBodies == {BodyJ1, BodyJ4, BodyJ6, BodyJ7, BodyJ9}

\* time passes between two steps of the callers
Elapse ==
    /\ now < MaxElapse * base
    /\ now' = now + base
    /\ UNCHANGED <<seed, accounts, journals, ledger, outbox, acks, tx, res, calls,
                   nextOid, wk, chaosOn, failsLeft>>

NextHistory ==
    \/ \E body \in HistoryBodies : StartPost("p1", body)
    \/ Probe("p1")
    \/ CreateHeader("p1")
    \/ ApplyLine("p1")
    \/ Finish("p1")
    \/ Commit("p1")
    \/ Elapse

SpecHistory == Init /\ [][NextHistory]_vars

\* the query without its currency condition
accountHistory_NoCurrency(entries, accountId, currency) ==
    IF accountId = "" THEN [error |-> "accountId is required"]
    ELSE
    LET found == SelectSeq(entries, LAMBDA e : e.accountId = accountId)
        rank(i) == Cardinality({j \in 1..Len(found) :
                      \/ found[j].createdAt < found[i].createdAt
                      \/ found[j].createdAt = found[i].createdAt /\ j <= i})
        items == [k \in 1..Len(found) |->
                    found[CHOOSE i \in 1..Len(found) : rank(i) = k]]
    IN  [error |-> None, accountId |-> accountId,
         currency |-> IF currency # None THEN currency
                      ELSE IF items # <<>> THEN items[1].currency ELSE "USD",
         history |-> [k \in 1..Len(items) |->
                        [transition |-> items[k].transition,
                         amount |-> items[k].amount,
                         timestamp |-> items[k].createdAt]]]

\* accountHistory(db, accountId, currency?): the committed ledger entries of
\* the account, of the currency when one is given (None: omitted), by
\* ascending createdAt (entries of one instant in store order), each as
\* { transition, amount, timestamp }; the timestamp is the instant itself
accountHistory(entries, accountId, currency) ==
    IF accountId = "" THEN [error |-> "accountId is required"]
    ELSE
    LET found == SelectSeq(entries, LAMBDA e :
                    /\ e.accountId = accountId
                    /\ currency # None => e.currency = currency)
        rank(i) == Cardinality({j \in 1..Len(found) :
                      \/ found[j].createdAt < found[i].createdAt
                      \/ found[j].createdAt = found[i].createdAt /\ j <= i})
        items == [k \in 1..Len(found) |->
                    found[CHOOSE i \in 1..Len(found) : rank(i) = k]]
    IN  [error |-> None, accountId |-> accountId,
         currency |-> IF currency # None THEN currency
                      ELSE IF items # <<>> THEN items[1].currency ELSE "USD",
         history |-> [k \in 1..Len(items) |->
                        [transition |-> items[k].transition,
                         amount |-> items[k].amount,
                         timestamp |-> items[k].createdAt]]]

\* C21: accountHistory(accountId, currency?) answers without an error and
\* its history holds one element for each committed ledger entry of the
\* account (of the currency, when one is given) and nothing else, by
\* ascending creation time; an account without entries has an empty history.
C21_AccountHistory ==
    \A a \in {"A", "ESCROW_POOL", "N", "Z"}, c \in {None, "USD", "EUR"} :
        LET r == accountHistory(ledger, a, c)
            M == {i \in 1..Len(ledger) :
                    /\ ledger[i].accountId = a
                    /\ c # None => ledger[i].currency = c}
            img(i) == [transition |-> ledger[i].transition,
                       amount |-> ledger[i].amount,
                       timestamp |-> ledger[i].createdAt]
        IN  /\ r.error = None
            /\ Len(r.history) = Cardinality(M)
            /\ \A k \in 1..Len(r.history) : \E i \in M : r.history[k] = img(i)
            /\ \A i \in M :
                  Cardinality({k \in 1..Len(r.history) : r.history[k] = img(i)})
                    = Cardinality({j \in M : img(j) = img(i)})
            /\ \A k \in 1..(Len(r.history) - 1) :
                  r.history[k].timestamp <= r.history[k + 1].timestamp
            /\ M = {} => r.history = <<>>

\* ESCROW_POOL has committed entries of two instants and of two currencies,
\* the EUR history is a proper part of the whole, and Z has none
C21_Witness ==
    LET all == accountHistory(ledger, "ESCROW_POOL", None).history
        eur == accountHistory(ledger, "ESCROW_POOL", "EUR").history
    IN  /\ Len(eur) > 0 /\ Len(eur) < Len(all)
        /\ all[1].timestamp < all[Len(all)].timestamp
        /\ accountHistory(ledger, "Z", None).history = <<>>

(***************************************************************************)
(* The guards of a posting and the answers of POST /journal.  One caller   *)
(* posts, one call after the other, on a store seeded with A, ESCROW_POOL  *)
(* and an account D that holds 1.00 available, 1.00 in escrow and an       *)
(* outflow of -1.00.                                                       *)
(***************************************************************************)
GuardBodies ==
    {BodyJ1, BodyJ5, BodyJ6, BodyMixed, BodyBadAmount,
     \* D moves 1.00 from available to pending
     Body("D1", "d1",
        <<Line("D", "reserve", "available", "pending", "debit", <<"1">>, "USD"),
          Line("ESCROW_POOL", "lock", "available", "escrow", "credit", <<"1">>, "USD")>>),
     \* D is touched by a line that moves nothing
     Body("D2", "d2",
        <<Line("D", "reserve", "available", "available", "debit", <<"1">>, "USD"),
          Line("ESCROW_POOL", "lock", "available", "escrow", "credit", <<"1">>, "USD")>>),
     \* D moves 1.00 from escrow to outflow
     Body("D3", "d3",
        <<Line("D", "finalize", "escrow", "outflow", "debit", <<"1">>, "USD"),
          Line("ESCROW_POOL", "lock", "available", "escrow", "credit", <<"1">>, "USD")>>),
     \* A draws 2.00 from pending, then fills pending with 2.00
     Body("R1", "r1",
        <<Line("A", "lock", "pending", "escrow", "credit", <<"2">>, "USD"),
          Line("A", "reserve", "available", "pending", "debit", <<"2">>, "USD")>>),
     \* A fills pending with 2.00, then draws 2.00 from it
     Body("R2", "r2",
        <<Line("A", "reserve", "available", "pending", "debit", <<"2">>, "USD"),
          Line("A", "lock", "pending", "escrow", "credit", <<"2">>, "USD")>>)}
      \cup {b \in TableBodies : b.lines[1].transition = "reserve"}

InitGuard ==
    /\ now = 0
    /\ seed = [a \in DOMAIN SeedAccounts \cup {"D"} |->
                 IF a = "D"
                 THEN [currency |-> "USD",
                       buckets |-> [ZeroBuckets EXCEPT !["available"] = 100,
                                                       !["escrow"] = 100,
                                                       !["outflow"] = -100]]
                 ELSE SeedAccounts[a]]
    /\ accounts = seed
    /\ journals = <<>>
    /\ ledger = <<>>
    /\ outbox = <<>>
    /\ acks = <<>>
    /\ tx = [p \in Posters |-> IdleTx]
    /\ res = [p \in Posters |-> NoRes]
    /\ calls = 0
    /\ nextOid = 1
    /\ wk = [w \in Workers |-> IdleWk]
    /\ chaosOn = TRUE
    /\ failsLeft = MaxFails

NextGuard ==
    \/ \E body \in GuardBodies : StartPost("p1", body)
    \/ Probe("p1")
    \/ CreateHeader("p1")
    \/ ApplyLine("p1")
    \/ Finish("p1")
    \/ Commit("p1")

SpecGuard == InitGuard /\ [][NextGuard]_vars

\* what postJournal throws for an outcome: a ZodError, a store error with a
\* code, or an Error with a message.  The message is the lower-case text
\* word by word; the quoted names of buckets, transitions and accounts that
\* some messages carry are left out (none of them holds a word tested below)
thrown(outcome) ==
    [zod |-> outcome = "ValidationError",
     code |-> IF outcome = "DuplicateKey" THEN 11000 ELSE 0,
     message |->
        CASE outcome = "Unbalanced" -> <<"journal", "not", "balanced">>
          [] outcome = "CurrencyMismatch" ->
                <<"all", "journal", "lines", "must", "use", "the", "same", "currency">>
          [] outcome = "Missing fromBucket" ->
                <<"missing", "frombucket", "for", "transition", "expected">>
          [] outcome = "Missing toBucket" ->
                <<"missing", "tobucket", "for", "transition", "expected">>
          [] outcome = "Invalid fromBucket" ->
                <<"invalid", "frombucket", "for", "transition", "expected">>
          [] outcome = "Invalid toBucket" ->
                <<"invalid", "tobucket", "for", "transition", "expected">>
          [] outcome = "InvalidAmount" -> <<"invalid", "amount", "string">>
          [] outcome = "InsufficientFunds" ->
                <<"insufficient", "funds", "or", "currency", "mismatch">>
          [] outcome = "NegativeBalance" ->
                <<"negative", "bucket", "for", "account", "after", "journal">>
          [] outcome = "ChaosFailure" ->
                <<"chaos", "simulated", "failure", "inside", "transaction">>
          [] OTHER -> <<>>]

\* the handler of POST /journal: the status it answers with for the result
\* of postJournal
journalHandler(result) ==
    IF result.outcome = "ok" THEN 200
    ELSE
    LET e == thrown(result.outcome)
        includes(phrase) ==
            \E i \in 0..(Len(e.message) - Len(phrase)) :
                \A k \in 1..Len(phrase) : e.message[i + k] = phrase[k]
        isUserFault ==
            \/ includes(<<"insufficient", "funds">>)
            \/ includes(<<"currency">>)
            \/ includes(<<"journal", "not", "balanced">>)
            \/ includes(<<"invalid">>)
            \/ includes(<<"missing">>)
    IN  IF e.zod THEN 422
        ELSE IF e.code = 11000 THEN 409
        ELSE IF isUserFault THEN 400
        ELSE 500

\* C22: POST /journal answers every user-fault domain error of postJournal
\* (unbalanced, currency mismatch, invalid transition, missing bucket,
\* insufficient funds, negative balance, invalid amount) with 400, a schema
\* validation error with 422, a duplicate-key store error with 409 and a
\* chaos failure with 500.
C22_ErrorStatus ==
    \A p \in Posters :
        Returned(p) =>
            LET o == res[p].outcome
                s == journalHandler(res[p])
            IN  /\ o \in {"Unbalanced", "CurrencyMismatch", "Invalid fromBucket",
                          "Invalid toBucket", "Missing fromBucket",
                          "Missing toBucket", "InsufficientFunds",
                          "NegativeBalance", "InvalidAmount"} => s = 400
                /\ o = "ValidationError" => s = 422
                /\ o = "DuplicateKey" => s = 409
                /\ o = "ChaosFailure" => s = 500

\* C23: a line on an account id its session does not hold yet creates the
\* account there with the line's currency and zero buckets, on which the
\* line's own movement (none, for a line that moves nothing) is applied; the
\* account enters the store only with the commit of that posting, holding
\* what the journal's lines moved on it; an account that exists keeps its
\* currency, in every session and in the store, and none is ever deleted.
C23_LazyCreation ==
    [][/\ DOMAIN accounts \subseteq DOMAIN accounts'
       /\ \A a \in DOMAIN accounts : accounts'[a].currency = accounts[a].currency
       /\ \A a \in DOMAIN accounts' \ DOMAIN accounts :
             \E p \in Posters :
                /\ tx[p].pc = "commit" /\ tx'[p].pc = "done"
                /\ res'[p].outcome = "ok"
                /\ LET ls == tx[p].body.lines
                       k == CHOOSE k \in 1..Len(ls) :
                               /\ ls[k].accountId = a
                               /\ \A j \in 1..(k - 1) : ls[j].accountId # a
                   IN  /\ \E j \in 1..Len(ls) : ls[j].accountId = a
                       /\ accounts'[a].currency = ls[k].currency
                       /\ \A b \in Buckets :
                             accounts'[a].buckets[b] = LinesDelta(ls, a, b)
       /\ \A p \in Posters :
             (tx[p].pc = "line" /\ tx'[p].lineNo = tx[p].lineNo + 1) =>
                LET line == tx[p].body.lines[tx'[p].lineNo]
                    a == line.accountId
                IN  /\ a \in DOMAIN tx[p].view =>
                          tx'[p].view[a].currency = tx[p].view[a].currency
                    /\ a \notin DOMAIN tx[p].view =>
                          /\ tx'[p].view[a].currency = line.currency
                          /\ \A b \in Buckets :
                                tx'[p].view[a].buckets[b] = LineDelta(line, a, b)
                          /\ a \notin DOMAIN accounts'
      ]_vars

\* N was created by BodyJ7 with USD and four zero buckets, and the EUR
\* journal J9 is committed on the USD accounts A and ESCROW_POOL
C23_Witness ==
    /\ "N" \in DOMAIN accounts
    /\ "N" \notin DOMAIN seed
    /\ accounts["N"] = [currency |-> "USD", buckets |-> ZeroBuckets]
    /\ Len(HeadersOf("J9")) = 1
    /\ accounts["A"].currency = "USD" /\ accounts["ESCROW_POOL"].currency = "USD"

\* C24: a line whose fromBucket equals its toBucket passes validation under
\* every transition name; applying it leaves the four buckets of its
\* account as they were and appends its ledger entry with its line number,
\* and it never fails on funds when the bucket is named; the committed
\* accounts hold exactly the movements of the other lines.
C24_NoopLines ==
    /\ [](/\ \A p \in Posters :
                (/\ Returned(p)
                 /\ Len(tx[p].body.lines) > 0
                 /\ SchemaOk(tx[p].body)
                 /\ \A k \in 1..Len(tx[p].body.lines) :
                       \/ tx[p].body.lines[k].fromBucket = tx[p].body.lines[k].toBucket
                       \/ validateTransition(tx[p].body.lines[k]) = "ok"
                 /\ assertSingleCurrency(tx[p].body.lines) = "ok"
                 /\ assertBalanced(tx[p].body.lines) = "ok")
                  => res[p].outcome \notin
                        {"ValidationError", "Missing fromBucket", "Missing toBucket",
                         "Invalid fromBucket", "Invalid toBucket"}
          /\ accounts = ExpectedAccounts
          /\ \A i \in 1..Len(journals) :
                LET es == EntriesOf(journals[i].journalId)
                IN  /\ Len(es) = Len(journals[i].lines)
                    /\ \A k \in 1..Len(es) :
                          /\ es[k].lineNo = k
                          /\ es[k].accountId = journals[i].lines[k].accountId
                          /\ es[k].fromBucket = journals[i].lines[k].fromBucket
                          /\ es[k].toBucket = journals[i].lines[k].toBucket)
    /\ [][\A p \in Posters :
            tx[p].pc = "line" =>
               LET n == tx[p].lineNo + 1
                   line == tx[p].body.lines[n]
                   a == line.accountId
                   before == IF a \in DOMAIN tx[p].view
                             THEN tx[p].view[a].buckets ELSE ZeroBuckets
               IN  line.fromBucket = line.toBucket =>
                      /\ (line.fromBucket # None /\ tx'[p] # tx[p]
                            /\ tx[p].staleAcc = {} /\ tx'[p].staleAcc = {})
                           => tx'[p].lineNo = n
                      /\ tx'[p].lineNo = n =>
                            /\ tx'[p].view[a].buckets = before
                            /\ tx'[p].led =
                                 Append(tx[p].led,
                                        appendLedgerEntry(tx[p].body.journalId,
                                                          n, line, now))
         ]_vars

\* a posting whose first line is a finalize from pending to pending on A
\* succeeded: A holds what the seed gave it, ESCROW_POOL moved 1.00 from
\* available to escrow, and both lines have their ledger entries
C24_Witness ==
    /\ Returned("p1") /\ res["p1"].outcome = "ok"
    /\ tx["p1"].body.lines[1].transition = "finalize"
    /\ tx["p1"].body.lines[1].fromBucket = "pending"
    /\ tx["p1"].body.lines[1].toBucket = "pending"
    /\ Len(journals) = 1 /\ journals[1].lines = tx["p1"].body.lines
    /\ accounts["A"] = seed["A"]
    /\ accounts["ESCROW_POOL"].buckets =
          [ZeroBuckets EXCEPT !["available"] = -100, !["escrow"] = 100]
    /\ Len(ledger) = 2 /\ ledger[1].lineNo = 1 /\ ledger[2].lineNo = 2

(***************************************************************************)
(* A posting run alone: the loop over the lines, then the sweep, on a      *)
(* store no other caller writes.                                           *)
(***************************************************************************)
\* the loop of postJournal over lines, applied to the accounts accs
RECURSIVE applyLines(_, _)
applyLines(accs, lines) ==
    IF lines = <<>> THEN [accounts |-> accs, outcome |-> "ok"]
    ELSE LET line == Head(lines)
             a == line.accountId
             doc == IF a \in DOMAIN accs THEN accs[a] ELSE newAccount(line)
             doc2 == IF isNoop(line) THEN doc
                     ELSE [doc EXCEPT !.buckets = applyInc(doc.buckets, line)]
         IN  IF ~isNoop(line) /\ ~predicateMatches(doc, line)
             THEN [accounts |-> accs, outcome |-> "InsufficientFunds"]
             ELSE applyLines([x \in DOMAIN accs \cup {a} |->
                                IF x = a THEN doc2 ELSE accs[x]],
                             Tail(lines))

\* the journals js posted one after the other on the accounts accs: the
\* accounts after the last one, or the accounts before the first that fails
\* and its error
RECURSIVE serialPosts(_, _)
serialPosts(accs, js) ==
    IF js = <<>> THEN [accounts |-> accs, outcome |-> "ok"]
    ELSE LET r == applyLines(accs, js[1].lines)
             sweep == assertNoNegativeBuckets(
                          r.accounts, affectedAccounts(js[1].lines, Len(js[1].lines)))
         IN  IF r.outcome # "ok" THEN [accounts |-> accs, outcome |-> r.outcome]
             ELSE IF sweep # "ok" THEN [accounts |-> accs, outcome |-> sweep]
             ELSE serialPosts(r.accounts, Tail(js))

\* C25: the committed store is what posting the committed journals one
\* after the other, in commit order, on the seed gives, each of them passing
\* its guards there; a call that failed on funds fails on funds when run
\* alone after some prefix of that order; a call rerun after a write
\* conflict ends in success or in the insufficient-funds error (or in the
\* injected chaos failure); no bucket of a guarded account is ever negative.
C25_Serializable ==
    LET all == serialPosts(seed, journals)
    IN  /\ all.outcome = "ok"
        /\ all.accounts = accounts
        /\ \A a \in DOMAIN accounts \ SYSTEM_OVERDRAFT_ACCOUNTS :
              \A b \in Buckets : accounts[a].buckets[b] >= 0
        /\ \A p \in Posters :
              Returned(p) =>
                 /\ res[p].outcome = "ok" =>
                       Len(HeadersOf(res[p].journalId)) = 1
                 /\ res[p].outcome = "InsufficientFunds" =>
                       \E k \in 0..Len(journals) :
                          serialPosts(serialPosts(seed, SubSeq(journals, 1, k)).accounts,
                                      <<tx[p].body>>).outcome = "InsufficientFunds"
                 /\ tx[p].retried =>
                       res[p].outcome \in {"ok", "InsufficientFunds", "ChaosFailure"}

\* BodyJ1 and BodyJ2 raced on A, which holds 4.00: one call committed, the
\* other was rerun after the write conflict and failed on funds
C25_Witness ==
    \E p, q \in Posters :
        /\ p # q /\ Returned(p) /\ Returned(q)
        /\ {tx[p].body, tx[q].body} = {BodyJ1, BodyJ2}
        /\ res[p].outcome = "ok"
        /\ res[q].outcome = "InsufficientFunds" /\ tx[q].retried
        /\ Len(journals) = 1

(***************************************************************************)
(* Interference: while one caller of processOutbox holds an item, someone  *)
(* else with access to the store takes the item out of processing, back to *)
(* pending or on to sent.                                                  *)
(***************************************************************************)
Interfere ==
    /\ \E k \in 1..Len(outbox), s \in {"pending", "sent"} :
          /\ outbox[k].status = "processing"
          /\ \E w \in Workers : wk[w].pc = "mark" /\ wk[w].doc.id = outbox[k].id
          /\ outbox' = [outbox EXCEPT ![k].status = s]
    /\ UNCHANGED <<now, seed, accounts, journals, ledger, acks, tx, res, calls,
                   nextOid, wk, chaosOn, failsLeft>>

NextInterfere ==
    \/ \E mb \in BatchSizes, bo \in Backoffs :
          wk["w1"].pc = "idle" /\ StartRun("w1", mb, bo)
    \/ WorkerStep("w1")
    \/ Tick
    \/ Interfere

SpecInterfere == InitOutbox /\ [][NextInterfere]_vars

\* C26: when the consumer was reached and the update from processing to
\* sent matches no document, processOutbox ends by raising to its caller,
\* without counting the item as retried and without going on to reschedule
\* it.
C26_FailsLoudly ==
    [][\A w \in Workers :
          (/\ wk[w].pc = "mark"
           /\ wk'[w] # wk[w]
           /\ \A k \in 1..Len(outbox) : ~markSentFilter(outbox[k], wk[w].doc.id))
            => /\ wk'[w].pc = "done"
               /\ wk'[w].failed
               /\ wk'[w].retried = wk[w].retried
      ]_vars

\* C27: the lines of a journal are applied one by one in their order, and
\* line n is decided on what the store held when the posting began plus the
\* movements of lines 1..n-1: it is applied when it moves nothing or when
\* the currency matches and, on a guarded account, its fromBucket holds the
\* amount there; otherwise the posting ends with the insufficient-funds
\* error, whatever the lines after it would move.
C27_LineOrder ==
    [][\A p \in Posters :
          (tx[p].pc = "line" /\ tx'[p] # tx[p]) =>
             LET t == tx[p]
                 n == t.lineNo + 1
                 line == t.body.lines[n]
                 a == line.accountId
                 before == SubSeq(t.body.lines, 1, n - 1)
                 held(b) == (IF a \in DOMAIN accounts THEN accounts[a].buckets[b]
                             ELSE 0) + LinesDelta(before, a, b)
                 cur == IF a \in DOMAIN accounts THEN accounts[a].currency
                        ELSE IF \E j \in 1..(n - 1) : before[j].accountId = a
                        THEN CreatedCurrency(<<[lines |-> before]>>, a)
                        ELSE line.currency
                 passes ==
                    \/ line.fromBucket = line.toBucket /\ line.fromBucket # None
                    \/ /\ cur = line.currency
                       /\ (line.fromBucket # None /\ a \notin SYSTEM_OVERDRAFT_ACCOUNTS)
                             => held(line.fromBucket) >= NumberOf(line.amount)
             IN  IF passes
                 THEN /\ tx'[p].lineNo = n
                      /\ tx'[p].led[n].lineNo = n
                      /\ tx'[p].led[n].accountId = a
                      /\ \A b \in Buckets :
                            tx'[p].view[a].buckets[b] = held(b) + LineDelta(line, a, b)
                 ELSE /\ tx'[p].pc = "done"
                      /\ res'[p].outcome = "InsufficientFunds"
                      /\ accounts' = accounts /\ ledger' = ledger
      ]_vars

\* the journal that fills pending of A with 2.00 and then draws 2.00 from it
\* is committed; after it A holds nothing pending, and the journal of the
\* same two lines in the other order failed on funds at its first line
C27_Witness ==
    /\ Returned("p1")
    /\ tx["p1"].body.journalId = "R1"
    /\ res["p1"].outcome = "InsufficientFunds"
    /\ Len(journals) = 1 /\ journals[1].journalId = "R2"
    /\ journals[1].status = "posted"
    /\ accounts["A"].buckets =
          [ZeroBuckets EXCEPT !["available"] = 200, !["escrow"] = 200]

\* C28: an item is enqueued with attempts 0; attempts of an item never
\* decreases and changes only by one, in the update with which the caller
\* that holds the item ends a round after its dispatch came back (markSent
\* after a delivery, scheduleRetry after a failure), and every such round
\* ends with that update; so the attempts of all items add up to the failed
\* dispatches plus the items sent, less the failures not yet rescheduled.
C28_AttemptsCount ==
    /\ [](Reschedules(outbox)
            + Cardinality({w \in Workers : wk[w].pc = "retry"})
              = MaxFails - failsLeft)
    /\ [][/\ \A k \in 1..Len(outbox') :
                IF k > Len(outbox) THEN outbox'[k].attempts = 0
                ELSE /\ outbox'[k].attempts \in
                           {outbox[k].attempts, outbox[k].attempts + 1}
                     /\ outbox'[k].attempts # outbox[k].attempts =>
                           \E w \in Workers :
                              /\ wk[w].doc.id = outbox[k].id
                              /\ wk'[w].pc \notin {"dispatch", "mark", "retry"}
                              /\ \/ wk[w].pc = "mark" /\ outbox'[k].status = "sent"
                                 \/ wk[w].pc = "retry" /\ outbox'[k].status = "pending"
          /\ \A w \in Workers :
                (/\ wk[w].pc \in {"mark", "retry"}
                 /\ wk'[w].pc \notin {"mark", "retry"})
                  => \E k \in 1..Len(outbox) :
                        /\ outbox[k].id = wk[w].doc.id
                        /\ outbox'[k].attempts = outbox[k].attempts + 1
                        /\ outbox'[k].attempts = wk[w].doc.attempts + 1
         ]_vars

\* the item of J1 was dispatched three times, twice failing, and is sent
\* with attempts 3; the item of J7 was delivered at once and has attempts 1
C28_Witness ==
    /\ failsLeft = MaxFails - 2
    /\ Len(outbox) = 2
    /\ outbox[1].status = "sent" /\ outbox[1].attempts = 3
    /\ outbox[2].status = "sent" /\ outbox[2].attempts = 1
    /\ \A w \in Workers : wk[w].pc = "done"

(***************************************************************************)
(* The retry delay over the attempts of an item.  The outbox holds the     *)
(* item of J1 after any number of failed rounds, due again; one caller     *)
(* runs processOutbox for one round with a maxBackoffMs of its choice, up  *)
(* to values above 500 * 2^10.                                             *)
(***************************************************************************)
MaxAttempts == 12  \* failed rounds behind the item when the call begins

InitBackoff ==
    /\ now = 0
    /\ seed = SeedAccounts
    /\ accounts = AccountsAfterJ1
    /\ journals = JournalsAfterJ1
    /\ ledger = <<appendLedgerEntry("J1", 1, BodyJ1.lines[1], 0),
                  appendLedgerEntry("J1", 2, BodyJ1.lines[2], 0)>>
    /\ \E n \in 0..MaxAttempts :
          outbox = <<[enqueueOutboxPosted(<<>>, <<>>, 1, "J1", 0).session[1]
                        EXCEPT !.attempts = n]>>
    /\ acks = <<>>
    /\ tx = [p \in Posters |-> IdleTx]
    /\ res = [p \in Posters |-> NoRes]
    /\ calls = 1
    /\ nextOid = 2
    /\ wk = [w \in Workers |-> IdleWk]
    /\ chaosOn = FALSE
    /\ failsLeft = MaxFails

NextBackoff ==
    \/ \E bo \in {0, base, DefaultMaxBackoffMs, 700000, 2000000} :
          wk["w1"].pc = "idle" /\ StartRun("w1", 1, bo)
    \/ WorkerStep("w1")

SpecBackoff == InitBackoff /\ [][NextBackoff]_vars

\* C29: whatever the attempts of the item and whatever maxBackoffMs, the
\* delay scheduled after a failure is at most 500 * 2^10 ms plus 20%.
C29_ExponentCap ==
    [][\A w \in Workers :
          (wk[w].pc = "retry" /\ wk'[w].pc # "retry") =>
             \A k \in 1..Len(outbox) :
                outbox[k].id = wk[w].doc.id =>
                   10 * (outbox'[k].nextAttemptAt - wk[w].failedAt)
                      <= 12 * base * Pow2(10)
      ]_vars

\* C30: once all lines are applied, the posting fails with the
\* negative-balance error exactly when an account named by one of its lines
\* and not in SYSTEM_OVERDRAFT_ACCOUNTS holds a negative bucket, be it one
\* the lines moved or not; nothing of a posting that failed so is in the
\* store; a negative bucket of a SYSTEM_OVERDRAFT account fails nothing.
C30_Sweep ==
    /\ [](\A p \in Posters :
             (Returned(p) /\ res[p].outcome = "NegativeBalance") =>
                /\ Len(HeadersOf(tx[p].body.journalId)) = 0
                /\ Len(EntriesOf(tx[p].body.journalId)) = 0
                /\ Len(ItemsOf(tx[p].body.journalId)) = 0
                /\ accounts = ExpectedAccounts)
    /\ [][\A p \in Posters :
            (tx[p].pc = "finish" /\ tx'[p] # tx[p]) =>
               LET ls == tx[p].body.lines
                   touched == {ls[i].accountId : i \in 1..Len(ls)}
                   val(a, b) == (IF a \in DOMAIN accounts
                                 THEN accounts[a].buckets[b] ELSE 0)
                                  + LinesDelta(ls, a, b)
               IN  IF \E a \in touched \ DefaultOverdraft :
                         \E b \in Buckets : val(a, b) < 0
                   THEN /\ tx'[p].pc = "done"
                        /\ res'[p].outcome = "NegativeBalance"
                        /\ UNCHANGED storeVars
                   ELSE res'[p].outcome # "NegativeBalance"
         ]_vars

\* the journal that touches D with a line that moves nothing failed on D's
\* outflow of -1.00 and left nothing, while BodyJ1 is committed with
\* ESCROW_POOL at -2.00 available
C30_Witness ==
    /\ Returned("p1")
    /\ tx["p1"].body.journalId = "D2"
    /\ res["p1"].outcome = "NegativeBalance"
    /\ Len(HeadersOf("D2")) = 0
    /\ accounts["D"] = seed["D"] /\ seed["D"].buckets["outflow"] < 0
    /\ Len(HeadersOf("J1")) = 1
    /\ accounts["ESCROW_POOL"].buckets["available"] = -200

(***************************************************************************)
(* Amount strings on the wire.  One caller posts, one call after the       *)
(* other, journals whose amounts are written with leading zeros, with a    *)
(* fractional part, or are zero.  Number(amount) is exact in hundredths    *)
(* here; the program adds the double nearest to the decimal.               *)
(***************************************************************************)
AmountBodies ==
    {\* 7.00 written as "007.00" and as "7"
     Body("M1", "m1",
        <<Line("ESCROW_POOL", "lock", "available", "escrow", "credit",
               <<"0", "0", "7", ".", "0", "0">>, "USD"),
          Line("A", "reserve", "available", "available", "debit", <<"7">>, "USD")>>),
     \* zero written as "0" and as "0.00"
     Body("M2", "m2",
        <<Line("A", "reserve", "available", "pending", "debit", <<"0">>, "USD"),
          Line("ESCROW_POOL", "lock", "available", "escrow", "credit",
               <<"0", ".", "0", "0">>, "USD")>>),
     \* zero written as "0.0" on lines that move nothing
     Body("M3", "m3",
        <<Line("A", "reserve", "pending", "pending", "debit", <<"0", ".", "0">>, "USD"),
          Line("ESCROW_POOL", "lock", "escrow", "escrow", "credit",
               <<"0", ".", "0">>, "USD")>>),
     \* 0.50 written as "0.50" and as "0.5"
     Body("M4", "m4",
        <<Line("A", "reserve", "available", "pending", "debit",
               <<"0", ".", "5", "0">>, "USD"),
          Line("ESCROW_POOL", "lock", "available", "escrow", "credit",
               <<"0", ".", "5">>, "USD")>>),
     \* 1.05
     Body("M5", "m5",
        <<Line("A", "reserve", "available", "pending", "debit",
               <<"1", ".", "0", "5">>, "USD"),
          Line("ESCROW_POOL", "lock", "available", "escrow", "credit",
               <<"1", ".", "0", "5">>, "USD")>>),
     BodyJ1, BodyBadAmount}

NextAmounts ==
    \/ \E body \in AmountBodies : StartPost("p1", body)
    \/ Probe("p1")
    \/ CreateHeader("p1")
    \/ ApplyLine("p1")
    \/ Finish("p1")
    \/ Commit("p1")

SpecAmounts == Init /\ [][NextAmounts]_vars

\* C31: the amount of every committed ledger entry is in canonical form:
\* no leading zeros, no fractional part of zeros only.
C31_CanonicalAmount ==
    \A k \in 1..Len(ledger) :
        /\ ledger[k].amount = normalizeAmountString(ledger[k].amount)
        /\ Len(IntPart(ledger[k].amount)) > 1 => ledger[k].amount[1] # "0"
        /\ FracPart(ledger[k].amount) \notin {<<"0">>, <<"0", "0">>}

\* C32: a journal with a line whose amount is zero is rejected by validation
\* and is never committed.
C32_PositiveAmounts ==
    /\ \A i \in 1..Len(journals) : \A k \in 1..Len(journals[i].lines) :
          cents(journals[i].lines[k].amount) > 0
    /\ \A k \in 1..Len(ledger) : cents(ledger[k].amount) > 0
    /\ \A p \in Posters :
          (/\ Returned(p)
           /\ \E k \in 1..Len(tx[p].body.lines) :
                 cents(tx[p].body.lines[k].amount) = 0)
            => res[p].outcome = "ValidationError"

\* C33: every bucket the store holds is an integer (bucket values are kept
\* here in hundredths of the stored number, so a stored integer is a
\* multiple of 100), and every applied line takes from its fromBucket what
\* it adds to its toBucket.
C33_WholeUnits ==
    /\ [](\A a \in DOMAIN accounts : \A b \in Buckets :
             accounts[a].buckets[b] % 100 = 0)
    /\ [][\A p \in Posters :
            (tx[p].pc = "line" /\ tx'[p].lineNo = tx[p].lineNo + 1) =>
               LET line == tx[p].body.lines[tx'[p].lineNo]
                   a == line.accountId
                   was(b) == IF a \in DOMAIN tx[p].view
                             THEN tx[p].view[a].buckets[b] ELSE 0
               IN  (line.fromBucket # None /\ line.toBucket # None) =>
                      was(line.fromBucket) - tx'[p].view[a].buckets[line.fromBucket]
                        = tx'[p].view[a].buckets[line.toBucket] - was(line.toBucket)
         ]_vars

\* GET /health: countDocuments({ status: "pending", attempts: { $gt: 0 } })
healthPendingRetries(ob) ==
    Cardinality({k \in 1..Len(ob) : ob[k].status = "pending" /\ ob[k].attempts > 0})

\* C34: the pendingRetries of the summary a processOutbox call returns is the
\* number of outbox items that are pending with attempts >= 1 when the call
\* counts the queue, the number GET /health reports as pendingRetries.
C34_PendingRetries ==
    [][\A w \in Workers :
         (wk[w].pc = "count" /\ wk'[w].pc = "done") =>
            wk'[w].pendingRetries = healthPendingRetries(outbox')]_vars

\* C35: with the events endpoint as the dispatch target, every outbox item
\* with status sent has a row in events_acks for its journalId, and the step
\* that marks an item sent finds that row already there.
C35_SentIsAcked ==
    /\ [](\A k \in 1..Len(outbox) :
             outbox[k].status = "sent" => AckRows(outbox[k].journalId) >= 1)
    /\ [][\A k \in 1..Len(outbox) :
            (outbox[k].status # "sent" /\ outbox'[k].status = "sent") =>
               /\ AckRows(outbox[k].journalId) >= 1
               /\ acks' = acks
               /\ \E w \in Workers :
                     /\ wk[w].pc = "mark" /\ wk[w].doc.id = outbox[k].id
                     /\ wk[w].ans.status = 200]_vars

\* an item was marked sent on its second delivery: the first request was
\* recorded by the consumer but its answer was lost, the second one met the
\* row already held
C35_Witness ==
    /\ outbox[1].status = "sent" /\ outbox[1].attempts = 2
    /\ AckRows(outbox[1].journalId) = 1
    /\ \E w \in Workers : wk[w].pc = "done" /\ wk[w].sent = 1 /\ wk[w].retried = 1

(***************************************************************************)
(* A worker that stops.  Between claimOne and markSent or scheduleRetry    *)
(* the process running processOutbox may end (the function is invoked from *)
(* a request handler), and the update of scheduleRetry may be refused by   *)
(* the store, which raises out of the catch: in both cases the call is     *)
(* over and nothing more is written for the item it had claimed.  No code  *)
(* of the dispatcher selects items by status processing.                   *)
(***************************************************************************)
Stop(w) ==
    /\ wk[w].pc \in {"dispatch", "mark", "retry"}
    /\ wk' = [wk EXCEPT ![w] = Return([wk[w] EXCEPT !.failed = TRUE])]
    /\ UNCHANGED <<now, seed, accounts, journals, ledger, outbox, acks, tx, res,
                   calls, nextOid, chaosOn, failsLeft>>

NextStop ==
    \/ Finish("p1")
    \/ Commit("p1")
    \/ \E mb \in BatchSizes, bo \in Backoffs : StartRun("w1", mb, bo)
    \/ WorkerStep("w1")
    \/ Tick
    \/ Stop("w1")

SpecStop == InitOutbox /\ [][NextStop]_vars

\* C36: no item is left in processing: whenever no processOutbox call is in
\* flight, after a call that ended with an error or a worker that stopped
\* between claiming and marking as well, no outbox item has status
\* processing.
C36_NoneStranded ==
    (\A w \in Workers : ~InRun(w)) =>
        \A k \in 1..Len(outbox) : outbox[k].status # "processing"

\* C37: within one processOutbox call no outbox item is dispatched more than
\* once, whatever maxBatch and maxBackoffMs are: an item the call rescheduled
\* after a failure is not claimed again by the same call.
C37_OncePerRun ==
    \A w \in Workers :
        \A i, j \in 1..Len(wk[w].order) :
            wk[w].order[i][3] = wk[w].order[j][3] => i = j

\* C38: the currency of every committed ledger entry is the stored currency
\* of the account the entry names, for lines that move nothing and lines on
\* SYSTEM_OVERDRAFT accounts as for all others.
C38_EntryCurrency ==
    \A i \in 1..Len(ledger) :
        /\ ledger[i].accountId \in DOMAIN accounts
        /\ ledger[i].currency = accounts[ledger[i].accountId].currency

C40_SweepIsBackstop ==
    (\A a \in DOMAIN seed \ SYSTEM_OVERDRAFT_ACCOUNTS :
        \A b \in Buckets : seed[a].buckets[b] >= 0)
    => /\ \A p \in Posters : res[p].outcome # "NegativeBalance"
       /\ \A a \in DOMAIN accounts \ SYSTEM_OVERDRAFT_ACCOUNTS :
             \A b \in Buckets : accounts[a].buckets[b] >= 0
       /\ \A p \in Posters :
             \A a \in DOMAIN tx[p].view \ SYSTEM_OVERDRAFT_ACCOUNTS :
                \A b \in Buckets : tx[p].view[a].buckets[b] >= 0

\* two callers side by side: one posted J2 and took 3 of A's 4 units, the
\* other asked for 9 and was refused by the predicate of its line, its
\* account N rolled back with it
C40_Witness ==
    \E p, q \in Posters :
        /\ Returned(p) /\ tx[p].body = BodyJ2 /\ res[p].outcome = "ok"
        /\ Returned(q) /\ tx[q].body = BodyJ6
        /\ res[q].outcome = "InsufficientFunds"
        /\ accounts["A"].buckets["available"] = 100
        /\ "N" \notin DOMAIN accounts

====
